---- MODULE Spec2Model ----
(***************************************************************************)
(* Model of the method-dispatch adaptation layer of magnus                 *)
(* (src/src/method.rs) and of the conversion contract it consumes          *)
(* (src/src/try_convert.rs).                                               *)
(*                                                                         *)
(* One registered trampoline is modelled: Init picks the adapter           *)
(* (Method/Function of arity -2..16, Init, Block) and the target types of  *)
(* its parameters; every call of the trampoline then runs                  *)
(*   anon -> Adapter::new(func).call_handle_error(..)                      *)
(*        -> catch_unwind(call_convert_value(..))                          *)
(*        -> match res { Ok(v) => v, Err(e) => raise(e) }                  *)
(* step by step: one conversion per step, the user function, the result    *)
(* conversion, the capture of an unwind and the final match.               *)
(***************************************************************************)
EXTENDS Integers, Sequences, FiniteSets, TLC

VARIABLES
    adapter,    \* the registered adapter: [kind, arity, sig]
    rb_self,    \* the self handle of the running call (blockarg for Block)
    args,       \* the positional handles of the running call
    argv,       \* the argv pointer of the running call (arity -1, Block)
    argSlice,   \* the slice call_convert_value made of argc and argv
    pc,         \* position inside the trampoline
    idx,        \* next item of the conversion list to convert
    converted,  \* the values converted so far, in conversion order
    convLog,    \* the slots whose try_convert has been called, in order
    funcCalls,  \* number of invocations of the user function in this call
    funcArgs,   \* the converted values the user function received
    funcSlice,  \* the raw slice the user function received (arity -1, Block)
    ret,        \* what the user function did: returned a value or panicked
    intoValues, \* number of into_value conversions performed in this call
    res,        \* the Result<Value, Error> that leaves the capture region
    raised,     \* the errors passed to raise in this call, in order
    returned,   \* the handles returned normally by this call, in order
    unwound,    \* TRUE when an unwind left call_handle_error
    bridge,     \* the bridge states this call went through, in order
    yielded,    \* the block-callback invocations of this call, in order
    calls,      \* invocations of the registered pointer so far
    built,      \* adapter values constructed so far
    lastEnd,    \* how the previous invocation ended
    unwind,     \* the unwind that started inside the capture region
    macro,      \* the method!/function! invocation that gave the trampoline
    conversion  \* a conversion applied on its own: type, handle, result

vars == <<adapter, rb_self, args, argv, argSlice, pc, idx, converted, convLog, funcCalls,
          funcArgs, funcSlice, ret, intoValues, res, raised, returned,
          unwound, bridge, yielded, calls, built, lastEnd, unwind,
          macro, conversion>>

(***************************************************************************)
(* Program constants and bounds                                            *)
(***************************************************************************)
MinArity == -2
MaxArity == 16
I8Min == -128
I8Max == 127
U8Max == 255
TupleMax == 12

\* at most MaxOdd handles of one call are handles that may fail conversion
MaxOdd == 2
\* largest argc of an arity -1 call and largest array of an arity -2 call
MaxArgc == 2
\* longest sequence a returned iterator produces
MaxYield == 2
\* largest arity of the adapters whose function returns a Yield type
MaxYieldArity == 1
\* largest arity of the adapters invoked more than once, and how often
MaxRepeatArity == 1
MaxCalls == 2
\* how far past the arities of the macros the arity arguments tried go
MaxBadArity == 2
\* largest arity of the adapters whose parameters have a conversion that may
\* panic
MaxCustomArity == 1

(***************************************************************************)
(* Handles (Value), typed Rust values, errors, results                     *)
(***************************************************************************)
IntH(n) == [tag |-> "int", val |-> n]
Nil == [tag |-> "nil", val |-> 0]
ProcH == [tag |-> "proc", val |-> 0]
\* an Array handle with the given element handles; ArrayH(k) has k Integers
ArrayOf(elems) == [tag |-> "array", val |-> Len(elems), elems |-> elems]
ArrayH(k) == ArrayOf([i \in 1..k |-> IntH(i)])
NoHandle == [tag |-> "none", val |-> 0]

Typed(ty, n) == [ty |-> ty, n |-> n]
NoValue == Typed("none", 0)
Unit == Typed("()", 0)

NewError(class, msg, got) ==
    [class |-> class, msg |-> msg, got |-> got, panic |-> FALSE]
NoError == [class |-> "none", msg |-> "", got |-> NoHandle, panic |-> FALSE]

\* Result<T, Error> for a typed value and Result<Value, Error> for a handle
OkT(v) == [ok |-> TRUE, val |-> v, err |-> NoError]
ErrT(e) == [ok |-> FALSE, val |-> NoValue, err |-> e]
OkV(h) == [ok |-> TRUE, val |-> h, err |-> NoError]
ErrV(e) == [ok |-> FALSE, val |-> NoHandle, err |-> e]
NoRes == [ok |-> FALSE, val |-> NoHandle, err |-> NoError]

(***************************************************************************)
(* The conversion contract                                                 *)
(***************************************************************************)
\* An Integer handle is IntH(n) while |n| < 2^31 and a Bignum beyond: a sign
\* and a magnitude in base 2^16, the least significant limb first and the
\* last limb not 0
BigH(neg, mag) == [tag |-> "bignum", val |-> 0, neg |-> neg, mag |-> mag]
BignumT(h) == [ty |-> "Bignum", n |-> 0, neg |-> h.neg, mag |-> h.mag]

\* Integer::try_convert: a handle that is not an integer is a TypeError
IntegerTryConvert(h) ==
    IF h.tag = "int"
    THEN OkT(Typed("Integer", h.val))
    ELSE IF h.tag = "bignum"
    THEN OkT(BignumT(h))
    ELSE ErrT(NewError("TypeError", "Integer", h))

\* the handle an Integer was converted from
IntegerHandle(v) ==
    IF v.ty = "Bignum" THEN BigH(v.neg, v.mag) ELSE IntH(v.n)

\* Integer::to_i8 / to_u8: a value outside the type's range is a RangeError
ToI8(v) ==
    IF v.ty = "Integer" /\ v.n >= I8Min /\ v.n <= I8Max
    THEN OkT(Typed("i8", v.n))
    ELSE ErrT(NewError("RangeError", "i8", IntegerHandle(v)))

ToU8(v) ==
    IF v.ty = "Integer" /\ v.n >= 0 /\ v.n <= U8Max
    THEN OkT(Typed("u8", v.n))
    ELSE ErrT(NewError("RangeError", "u8", IntegerHandle(v)))

\* an RArray: the same Array, typed
RArrayT(elems) == [ty |-> "RArray", n |-> Len(elems), elems |-> elems]

\* RArray::try_convert
RArrayTryConvert(h) ==
    IF h.tag = "array"
    THEN OkT(RArrayT(h.elems))
    ELSE ErrT(NewError("TypeError", "Array", h))

\* impl TryConvert for i8: Integer::try_convert(val)?.to_i8()
TryConvertI8(h) ==
    LET i == IntegerTryConvert(h)
    IN  IF i.ok THEN ToI8(i.val) ELSE i

\* impl TryConvert for u8: Integer::try_convert(val)?.to_u8()
TryConvertU8(h) ==
    LET i == IntegerTryConvert(h)
    IN  IF i.ok THEN ToU8(i.val) ELSE i

(***************************************************************************)
(* The integer types of every width                                        *)
(***************************************************************************)
IntTypes ==
    {"i8", "i16", "i32", "i64", "isize", "u8", "u16", "u32", "u64", "usize"}
Signed(ty) == ty \in {"i8", "i16", "i32", "i64", "isize"}
\* the width in bits; isize and usize are those of a 64-bit target
Width(ty) ==
    CASE ty \in {"i8", "u8"} -> 8
      [] ty \in {"i16", "u16"} -> 16
      [] ty \in {"i32", "u32"} -> 32
      [] ty \in {"i64", "u64", "isize", "usize"} -> 64

\* the magnitudes of 2^k, 2^k - 1 and 2^k + 1 (k >= 1)
Pow2Mag(k) ==
    [i \in 1..((k \div 16) + 1) |-> IF i = (k \div 16) + 1 THEN 2^(k % 16) ELSE 0]
Pow2Minus1Mag(k) ==
    [i \in 1..((k + 15) \div 16) |->
        IF i = (k \div 16) + 1 THEN 2^(k % 16) - 1 ELSE 65535]
Pow2Plus1Mag(k) ==
    [i \in 1..((k \div 16) + 1) |-> Pow2Mag(k)[i] + (IF i = 1 THEN 1 ELSE 0)]

\* the magnitude of a native number m >= 0, and back
MagOf(m) ==
    IF m = 0 THEN <<>>
    ELSE IF m < 65536 THEN <<m>>
    ELSE <<m % 65536, m \div 65536>>
Native(mag) ==
    IF mag = <<>> THEN 0
    ELSE IF Len(mag) = 1 THEN mag[1]
    ELSE mag[1] + 65536 * mag[2]
IsNative(mag) == Len(mag) < 2 \/ (Len(mag) = 2 /\ mag[2] < 32768)

\* a < b for two magnitudes: the shorter is the smaller, and limbs decide
\* from the most significant one down
RECURSIVE MagLessFrom(_, _, _)
MagLessFrom(a, b, i) ==
    IF i = 0 THEN FALSE
    ELSE IF a[i] # b[i] THEN a[i] < b[i]
    ELSE MagLessFrom(a, b, i - 1)
MagLess(a, b) ==
    IF Len(a) # Len(b) THEN Len(a) < Len(b) ELSE MagLessFrom(a, b, Len(a))

\* the sign and magnitude of an Integer
NumOf(v) ==
    IF v.ty = "Bignum"
    THEN [neg |-> v.neg, mag |-> v.mag]
    ELSE [neg |-> v.n < 0, mag |-> MagOf(IF v.n < 0 THEN 0 - v.n ELSE v.n)]

\* the handle of the Integer with that sign and magnitude
HandleOfNum(x) ==
    IF IsNative(x.mag)
    THEN IntH(IF x.neg THEN 0 - Native(x.mag) ELSE Native(x.mag))
    ELSE BigH(x.neg, x.mag)

\* a value of an integer type of 16 bits and more: the bits that hold it,
\* in two's complement, as Width(ty) / 16 limbs of base 2^16, the least
\* significant limb first
IntT(ty, bits) == [ty |-> ty, n |-> 0, bits |-> bits]

\* a magnitude in k limbs: zero limbs fill the place above it
ZeroExtend(mag, k) == [i \in 1..k |-> IF i <= Len(mag) THEN mag[i] ELSE 0]

\* the two's complement of a bit pattern: every bit inverted, plus one, the
\* carry out of the last limb dropped
Negate(bits) ==
    [i \in 1..Len(bits) |->
        IF \A j \in 1..(i - 1) : bits[j] = 0
        THEN (65536 - bits[i]) % 65536
        ELSE 65535 - bits[i]]

\* the bits of the number x in the type ty, whose range holds x
BitsOf(ty, x) ==
    LET z == ZeroExtend(x.mag, Width(ty) \div 16)
    IN  IF x.neg THEN Negate(z) ELSE z

\* a magnitude without the zero limbs at its end
RECURSIVE Trim(_)
Trim(mag) ==
    IF mag # <<>> /\ mag[Len(mag)] = 0
    THEN Trim(SubSeq(mag, 1, Len(mag) - 1))
    ELSE mag

\* x lies in the range of the type: -2^(w-1) .. 2^(w-1) - 1 or 0 .. 2^w - 1
FitsIn(ty, x) ==
    IF Signed(ty)
    THEN IF x.neg
         THEN ~MagLess(Pow2Mag(Width(ty) - 1), x.mag)
         ELSE MagLess(x.mag, Pow2Mag(Width(ty) - 1))
    ELSE (~x.neg \/ x.mag = <<>>) /\ MagLess(x.mag, Pow2Mag(Width(ty)))

\* Integer::to_i16 .. to_usize: a value outside the type's range is a
\* RangeError
ToInt(ty, v) ==
    IF FitsIn(ty, NumOf(v))
    THEN OkT(IntT(ty, BitsOf(ty, NumOf(v))))
    ELSE ErrT(NewError("RangeError", ty, IntegerHandle(v)))

\* variant of TryConvertInt: the impl for i64 calls the conversion of the
\* impl it was copied from, to_i32
TryConvertIntCopied(ty, h) ==
    LET i == IntegerTryConvert(h)
    IN  IF ~i.ok THEN i
        ELSE IF ty = "i64" /\ ~ToInt("i32", i.val).ok THEN ToInt("i32", i.val)
        ELSE ToInt(ty, i.val)

\* variant of TryConvertInt: the value is cast with `as`, which keeps the
\* low bits of a value that does not fit
TryConvertIntCasts(ty, h) ==
    LET i == IntegerTryConvert(h)
        x == NumOf(i.val)
        wide == LET z == ZeroExtend(x.mag, 5)
                IN  IF x.neg THEN Negate(z) ELSE z
    IN  IF ~i.ok THEN i
        ELSE IF FitsIn(ty, x) THEN ToInt(ty, i.val)
        ELSE OkT(IntT(ty, SubSeq(wide, 1, Width(ty) \div 16)))

\* impl TryConvert for i16 .. usize: Integer::try_convert(val)?.to_i16() ..
TryConvertInt(ty, h) ==
    LET i == IntegerTryConvert(h)
    IN  IF i.ok THEN ToInt(ty, i.val) ELSE i

\* a (T0, T1) of two converted values
Tuple2T(a, b) ==
    [ty |-> "(i8, u8)", n |-> (a.n + 2 * b.n) % 100, elems |-> <<a, b>>]

\* variant of TryConvertTuple2: an element that does not convert is replaced
\* by a default value
TryConvertTuple2Lenient(h) ==
    LET array == RArrayTryConvert(h)
    IN  IF ~array.ok THEN array
        ELSE IF array.val.n # 2
        THEN ErrT(NewError("TypeError", "expected Array of length 2", NoHandle))
        ELSE OkT(Tuple2T(TryConvertI8(array.val.elems[1]).val,
                         TryConvertU8(array.val.elems[2]).val))

\* impl TryConvert for (T0, T1), with T0 = i8 and T1 = u8: the Array must
\* have two elements, converted in order, the first failure ending it
TryConvertTuple2(h) ==
    LET array == RArrayTryConvert(h)
    IN  IF ~array.ok THEN array
        ELSE IF array.val.n # 2
        THEN ErrT(NewError("TypeError", "expected Array of length 2", NoHandle))
        ELSE LET t0 == TryConvertI8(array.val.elems[1])
                 t1 == TryConvertU8(array.val.elems[2])
             IN  IF ~t0.ok THEN t0
                 ELSE IF ~t1.ok THEN t1
                 ELSE OkT(Tuple2T(t0.val, t1.val))

NoPayload == [ptype |-> "none", msg |-> ""]
\* the payload of the panic of a conversion, and of an iterator's next
CustomPayload == [ptype |-> "String", msg |-> "convert"]
IterPayload == [ptype |-> "str", msg |-> "next"]

\* a call of try_convert that does not return: it panics
DidNotReturn == [ok |-> FALSE, val |-> NoValue, err |-> NoError]

\* impl TryConvert for a type of the embedding program, whose conversion
\* panics on a handle it does not expect
TryConvertCustom(h) ==
    IF h.tag = "int" THEN OkT(Typed("Custom", h.val))
    ELSE IF h.tag = "proc" THEN DidNotReturn
    ELSE ErrT(NewError("TypeError", "Custom", h))

\* TryConvert::try_convert(val) -> Result<Self, Error>, by target type: the
\* result depends on the target type and on the handle, on nothing else
TryConvert(ty, h) ==
    CASE ty = "i8" -> TryConvertI8(h)
      [] ty = "u8" -> TryConvertU8(h)
      [] ty = "RArray" -> RArrayTryConvert(h)
      [] ty = "(i8, u8)" -> TryConvertTuple2(h)
      [] ty = "Custom" -> TryConvertCustom(h)
      [] ty \in IntTypes \ {"i8", "u8"} -> TryConvertInt(ty, h)

\* the target types of a conversion: a scalar, Option<T>, (T0, .., Tn-1)
Scalar(name) == [ctor |-> name, args |-> <<>>]
OptionOf(t) == [ctor |-> "Option", args |-> <<t>>]
TupleOf(ts) == [ctor |-> "Tuple", args |-> ts]

VecOf(t) == [ctor |-> "Vec", args |-> <<t>>]
ArrayTy(t) == [ctor |-> "Array", args |-> <<t>>]
HashMapOf(k, v) == [ctor |-> "HashMap", args |-> <<k, v>>]

NoneT == [ty |-> "None", n |-> 0]
SomeT(v) == [ty |-> "Some", n |-> v.n, some |-> v]
TupleT(vals) == [ty |-> "Tuple", n |-> Len(vals), elems |-> vals]

\* one call of try_convert made from inside a conversion
Call(t, h) == [ty |-> t, h |-> h]
\* what a conversion gives: its Result, and the calls made to the
\* conversions of its component types, in order
Outcome(r, log) == [res |-> r, log |-> log]

\* the message of the length check of the impl for tuples of n elements
LengthError(n) ==
    CASE n = 1 -> "expected Array of length 1"
      [] n = 2 -> "expected Array of length 2"
      [] n = 3 -> "expected Array of length 3"
      [] n = 4 -> "expected Array of length 4"
      [] n = 5 -> "expected Array of length 5"
      [] n = 6 -> "expected Array of length 6"
      [] n = 7 -> "expected Array of length 7"
      [] n = 8 -> "expected Array of length 8"
      [] n = 9 -> "expected Array of length 9"
      [] n = 10 -> "expected Array of length 10"
      [] n = 11 -> "expected Array of length 11"
      [] n = 12 -> "expected Array of length 12"

RECURSIVE TryConvertOf(_, _)

\* variant of TryConvertOption: a handle that T does not convert gives None
TryConvertOptionLenient(t, h) ==
    IF h.tag # "nil"
    THEN LET r == TryConvertOf(t, h)
         IN  Outcome(IF r.res.ok THEN OkT(SomeT(r.res.val)) ELSE OkT(NoneT),
                     <<Call(t, h)>> \o r.log)
    ELSE Outcome(OkT(NoneT), <<>>)

\* impl TryConvert for Option<T>:
\*   (!val.is_nil()).then(|| T::try_convert(val)).transpose()
TryConvertOption(t, h) ==
    IF h.tag # "nil"
    THEN LET r == TryConvertOf(t, h)
         IN  Outcome(IF r.res.ok THEN OkT(SomeT(r.res.val)) ELSE r.res,
                     <<Call(t, h)>> \o r.log)
    ELSE Outcome(OkT(NoneT), <<>>)

\* Ok((slice[0].try_convert()?, slice[1].try_convert()?, ..)): the elements
\* from the i-th on, after those that gave vals
RECURSIVE ConvertElements(_, _, _, _, _)
ConvertElements(ts, slice, i, vals, log) ==
    IF i > Len(ts)
    THEN Outcome(OkT(TupleT(vals)), log)
    ELSE LET r == TryConvertOf(ts[i], slice[i])
             l == log \o <<Call(ts[i], slice[i])>> \o r.log
         IN  IF r.res.ok
             THEN ConvertElements(ts, slice, i + 1, Append(vals, r.res.val), l)
             ELSE Outcome(r.res, l)

\* variant of TryConvertTuple: an Array longer than the tuple is accepted
\* and the elements past the tuple's length are left out
TryConvertTupleIgnoresExtra(ts, h) ==
    LET array == RArrayTryConvert(h)
    IN  IF ~array.ok THEN Outcome(array, <<>>)
        ELSE LET slice == array.val.elems
             IN  IF Len(slice) < Len(ts)
                 THEN Outcome(ErrT(NewError("TypeError", LengthError(Len(ts)),
                                            NoHandle)), <<>>)
                 ELSE ConvertElements(ts, slice, 1, <<>>, <<>>)

\* impl TryConvert for (T0,) .. (T0, .., T11)
TryConvertTuple(ts, h) ==
    LET array == RArrayTryConvert(h)
    IN  IF ~array.ok THEN Outcome(array, <<>>)
        ELSE LET slice == array.val.elems
             IN  IF Len(slice) # Len(ts)
                 THEN Outcome(ErrT(NewError("TypeError", LengthError(Len(ts)),
                                            NoHandle)), <<>>)
                 ELSE ConvertElements(ts, slice, 1, <<>>, <<>>)

\* impl TryConvert for Vec<T>: RArray::try_convert(val)?.to_vec(), which
\* converts the elements in order into a Vec on the heap
TryConvertVec(t, h) ==
    LET array == RArrayTryConvert(h)
    IN  IF ~array.ok THEN Outcome(array, <<>>)
        ELSE LET slice == array.val.elems
                 r == ConvertElements([i \in 1..Len(slice) |-> t], slice, 1,
                                      <<>>, <<>>)
             IN  IF r.res.ok
                 THEN Outcome(OkT([r.res.val EXCEPT !.ty = "Vec"]), r.log)
                 ELSE r

\* T::try_convert(val) for a target type T
TryConvertOf(t, h) ==
    CASE t.ctor = "Option" -> TryConvertOption(t.args[1], h)
      [] t.ctor = "Tuple" -> TryConvertTuple(t.args, h)
      [] t.ctor = "Vec" -> TryConvertVec(t.args[1], h)
      [] OTHER -> Outcome(TryConvert(t.ctor, h), <<>>)

(***************************************************************************)
(* Which types implement TryConvert and the marker TryConvertOwned         *)
(***************************************************************************)
\* the types that are a Value or wrap one
HandleTypes == {"Value", "RArray", "Integer", "RString", "RHash"}
\* the types with `unsafe impl TryConvertOwned for ..` and no where clause
\* (bytes::Bytes too, with the feature bytes-crate)
OwnedScalars ==
    IntTypes \cup {"bool", "f32", "f64", "String", "char", "PathBuf"}

\* K: Eq + std::hash::Hash, the further bound on the key of a HashMap: the
\* floats are neither, a HashMap is not Hash, the handle types are not; the
\* standard library has both for the unit type and for tuples of up to 12
\* elements
RECURSIVE EqHash(_)
EqHash(t) ==
    CASE t.ctor \in OwnedScalars \ {"f32", "f64"} -> TRUE
      [] t.ctor \in {"Option", "Vec", "Array"} -> EqHash(t.args[1])
      [] t.ctor = "Tuple" -> /\ Len(t.args) \in 0..TupleMax
                             /\ \A i \in 1..Len(t.args) : EqHash(t.args[i])
      [] OTHER -> FALSE

RECURSIVE Implements(_), Owned(_)

\* T: TryConvert, by the impls and their where clauses; tuples have impls
\* for 1 to 12 elements
Implements(t) ==
    CASE t.ctor \in OwnedScalars \cup HandleTypes -> TRUE
      [] t.ctor = "Option" -> Implements(t.args[1])
      [] t.ctor = "Vec" -> Owned(t.args[1])
      [] t.ctor = "Array" -> Implements(t.args[1])
      [] t.ctor = "Tuple" -> /\ Len(t.args) \in 1..TupleMax
                             /\ \A i \in 1..Len(t.args) : Implements(t.args[i])
      [] t.ctor = "HashMap" -> /\ Owned(t.args[1]) /\ EqHash(t.args[1])
                               /\ Owned(t.args[2])
      [] OTHER -> FALSE

\* T: TryConvertOwned, by the unsafe impls and their where clauses
Owned(t) ==
    CASE t.ctor \in OwnedScalars -> TRUE
      [] t.ctor = "Option" -> Owned(t.args[1])
      [] t.ctor = "Vec" -> Owned(t.args[1])
      [] t.ctor = "Array" -> Implements(t.args[1])
      [] t.ctor = "Tuple" -> /\ Len(t.args) \in 1..TupleMax
                             /\ \A i \in 1..Len(t.args) : Implements(t.args[i])
      [] t.ctor = "HashMap" -> /\ Owned(t.args[1]) /\ EqHash(t.args[1])
                               /\ Owned(t.args[2])
      [] OTHER -> FALSE

\* a value of the type holds a Value
RECURSIVE ContainsValue(_)
ContainsValue(t) ==
    \/ t.ctor \in HandleTypes
    \/ \E i \in 1..Len(t.args) : ContainsValue(t.args[i])

\* `self as i64` and `self as u64`: the value of an integer type in 64 bits;
\* the sign bit of a signed type fills the bits above it, zeros fill them
\* for an unsigned type
Widen(v) ==
    LET low == IF v.ty \in {"i8", "u8"} THEN <<(v.n + 65536) % 65536>> ELSE v.bits
        fill == IF Signed(v.ty) /\ low[Len(low)] >= 32768 THEN 65535 ELSE 0
    IN  [i \in 1..4 |-> IF i <= Len(low) THEN low[i] ELSE fill]

\* Integer::from_i64: the Integer whose value the 64 bits hold in two's
\* complement
FromI64(bits) ==
    IF bits[4] >= 32768
    THEN HandleOfNum([neg |-> TRUE, mag |-> Trim(Negate(bits))])
    ELSE HandleOfNum([neg |-> FALSE, mag |-> Trim(bits)])

\* Integer::from_u64: the Integer whose value the 64 bits hold, unsigned
FromU64(bits) == HandleOfNum([neg |-> FALSE, mag |-> Trim(bits)])

\* variant of IntoValue: the value of a signed type is also widened with
\* `as u64` and given to Integer::from_u64
IntoValueAsUnsigned(v) ==
    IF v.ty = "()" THEN Nil
    ELSE IF v.ty \in IntTypes THEN FromU64(Widen(v))
    ELSE IntH(v.n)

\* IntoValue::into_value_unchecked: nil for the unit value; an integer is
\* widened to 64 bits and made an Integer of the same value
IntoValue(v) ==
    IF v.ty = "()" THEN Nil
    ELSE IF v.ty \in IntTypes
    THEN IF Signed(v.ty) THEN FromI64(Widen(v)) ELSE FromU64(Widen(v))
    ELSE IntH(v.n)

\* Proc::from_value(blockarg) -> Option<Proc>
ProcFromValue(h) ==
    IF h.tag = "proc" THEN Typed("Some(Proc)", 0) ELSE Typed("None", 0)

\* Error::from_panic: the message of a &str or String payload, otherwise
\* the generic marker, with the caught-panic sentinel
FromPanic(payload) ==
    [class |-> "fatal",
     msg |-> IF payload.ptype \in {"str", "String"} THEN payload.msg ELSE "panic",
     got |-> NoHandle,
     panic |-> TRUE]

(***************************************************************************)
(* The registered adapter and the handles of a call                        *)
(***************************************************************************)
\* the parameter types of the wrapped function: all i8, or i8 and u8 in turn
Sigs == {"i8", "mixed"}

\* the return type Res of the wrapped function: "T" stands for T and for
\* Result<T, Error>, a Yield type for itself and for its Result
YieldTypes == {"Yield", "YieldValues", "YieldSplat"}

Adapters ==
    {[kind |-> k, arity |-> n, sig |-> s, res |-> "T"] :
        k \in {"Method", "Function"}, n \in MinArity..MaxArity, s \in Sigs}
    \cup {[kind |-> k, arity |-> n, sig |-> "i8", res |-> y] :
        k \in {"Method", "Function"}, n \in MinArity..MaxYieldArity, y \in YieldTypes}
    \cup {[kind |-> k, arity |-> n, sig |-> "custom", res |-> "T"] :
        k \in {"Method", "Function"}, n \in MinArity..MaxCustomArity}
    \cup {[kind |-> "Init", arity |-> 0, sig |-> "i8", res |-> "T"],
          [kind |-> "Block", arity |-> -1, sig |-> "i8", res |-> "T"]}

\* no adapter: nothing was registered
NoAdapter == [kind |-> "none", arity |-> 0, sig |-> "i8", res |-> "T"]

(***************************************************************************)
(* method! and function!                                                   *)
(***************************************************************************)
\* the arity argument of a macro invocation: its tokens as written, and the
\* value they have as an expression
ArityArg(tokens, val) == [tokens |-> tokens, val |-> val]
NoArg == ArityArg(<<>>, 0)

\* the decimal literal token of a natural number, as the arms write it
DecimalDigits ==
    <<"0", "1", "2", "3", "4", "5", "6", "7", "8", "9", "10", "11", "12",
      "13", "14", "15", "16", "17", "18", "19", "20", "21", "22", "23", "24">>
Decimal(n) == DecimalDigits[n + 1]
\* the tokens of the integer n written as in the arms: -2 is `-` and `2`
Spelled(n) == IF n < 0 THEN <<"-", Decimal(0 - n)>> ELSE <<Decimal(n)>>

\* integer literals with a value of an arm, written otherwise: a leading
\* zero, a radix prefix, a separator, a type suffix, a sign on zero
OtherSpellings ==
    {ArityArg(<<"01">>, 1), ArityArg(<<"00">>, 0), ArityArg(<<"-", "0">>, 0),
     ArityArg(<<"0x1">>, 1), ArityArg(<<"0b10">>, 2), ArityArg(<<"1_0">>, 10),
     ArityArg(<<"1u8">>, 1), ArityArg(<<"1i8">>, 1), ArityArg(<<"16i8">>, 16)}
\* expressions that are not a literal: a constant N of that value, a sum
Expressions ==
    {ArityArg(<<"N">>, n) : n \in 0..MaxBadArity}
    \cup {ArityArg(<<"1", "+", "1">>, 2)}
ArityArgs ==
    {ArityArg(Spelled(n), n) :
        n \in (MinArity - MaxBadArity)..(MaxArity + MaxBadArity)}
    \cup OtherSpellings
    \cup Expressions
MacroNames == {"method", "function"}

ArityError == "arity must be an integer literal between -2..=16"

\* what an invocation expands to: the adapter anon builds, or compile_error!
Expansion(kind, arity, error) == [kind |-> kind, arity |-> arity, error |-> error]

\* the arms with a literal, in the order of the source: -2, -1, 0, .., 16
NumArms == MaxArity - MinArity + 1
ArmArity(i) == MinArity + i - 1
ArmTokens(i) == Spelled(ArmArity(i))
\* the first arm from the i-th on whose literal the tokens match, 0 if none
RECURSIVE MatchArm(_, _)
MatchArm(tokens, i) ==
    IF i > NumArms THEN 0
    ELSE IF tokens = ArmTokens(i) THEN i
    ELSE MatchArm(tokens, i + 1)

\* variant of MacroRules: the argument is matched by its value, not by its
\* tokens
MacroRulesByValue(name, arg) ==
    IF arg.val \in MinArity..MaxArity
    THEN Expansion(IF name = "method" THEN "Method" ELSE "Function", arg.val, "")
    ELSE Expansion("none", 0, ArityError)

\* macro_rules! method / function: one arm for each of the literals -2, -1,
\* 0, .., 16, matched token by token, and the arm ($name:expr, $arity:expr)
\* for everything else
MacroRules(name, arg) ==
    LET i == MatchArm(arg.tokens, 1)
    IN  IF i # 0
        THEN Expansion(IF name = "method" THEN "Method" ELSE "Function",
                       ArmArity(i), "")
        ELSE Expansion("none", 0, ArityError)

\* the trampoline a macro invocation leaves, for a function with parameters
\* sig and result type r
Registered(name, arg, sig, r) ==
    LET e == MacroRules(name, arg)
    IN  IF e.error = ""
        THEN [kind |-> e.kind, arity |-> e.arity, sig |-> sig, res |-> r]
        ELSE NoAdapter

\* call_handle_error(rb_self, a, b, ..) inside anon: the handles anon
\* received, passed on in the order of its parameters
AnonForward(received) == received

\* target type of a slot of the wrapped function: slot 0 is RbSelf, slot i
\* (i >= 1) is the i-th positional parameter (A, B, C, ...)
ArgTy(sig, slot) ==
    IF sig = "custom" THEN "Custom"
    ELSE IF sig = "mixed" /\ slot % 2 = 1 THEN "u8" ELSE "i8"

\* target type Args of the argument container of an arity -2 adapter: the
\* RArray itself, or a tuple converted from it
ArgsTy(sig) == IF sig = "mixed" THEN "(i8, u8)" ELSE "RArray"

\* a handle that converts to both i8 and u8, different in every slot
GoodHandle(slot) == IntH(slot)

\* handles that may fail conversion: nil fails for both types, one past the
\* maximum of i8 fails for i8 and converts to u8
OddHandles == {Nil, IntH(I8Max + 1)}
\* for the type of the embedding program: nil fails, a Proc makes it panic
OddHandlesOf(sig) == IF sig = "custom" THEN {Nil, ProcH} ELSE OddHandles

\* where the odd handles of a call go: g[j] is the slot of the j-th odd
\* handle, in increasing order, n + 1 standing for "not used"
OddPlacements(lo, n) ==
    {g \in [1..MaxOdd -> lo..(n + 1)] :
        \A j \in 1..(MaxOdd - 1) : g[j] < g[j + 1] \/ g[j + 1] = n + 1}

\* the handles of slots 0..n: the odd ones as g and hs say, the others good
CallHandles(n, g, hs) ==
    [s \in 0..n |->
        IF \E j \in 1..MaxOdd : g[j] = s
        THEN hs[CHOOSE j \in 1..MaxOdd : g[j] = s]
        ELSE GoodHandle(s)]

(***************************************************************************)
(* call_convert_value                                                      *)
(***************************************************************************)
Item(h, ty, slot) == [h |-> h, ty |-> ty, slot |-> slot]

\* variant of ConvList: the argument list is converted right to left
ConvListRightToLeft(a, self, as) ==
    LET selfItem == Item(self, ArgTy(a.sig, 0), 0)
        argItems == [i \in 1..Len(as) |->
                        Item(as[Len(as) + 1 - i], ArgTy(a.sig, Len(as) + 1 - i), Len(as) + 1 - i)]
    IN  CASE a.kind = "Method" /\ a.arity >= 0 -> argItems \o <<selfItem>>
          [] a.kind = "Method" /\ a.arity = -2 -> <<Item(as[1], ArgsTy(a.sig), 1), selfItem>>
          [] a.kind = "Method" /\ a.arity = -1 -> <<selfItem>>
          [] a.kind = "Function" /\ a.arity >= 0 -> argItems
          [] a.kind = "Function" /\ a.arity = -2 -> <<Item(as[1], ArgsTy(a.sig), 1)>>
          [] OTHER -> <<>>

\* variant of ConvList: the function adapters convert the self handle too
ConvListFunctionConvertsSelf(a, self, as) ==
    LET selfItem == Item(self, ArgTy(a.sig, 0), 0)
        argItems == [i \in 1..Len(as) |-> Item(as[i], ArgTy(a.sig, i), i)]
    IN  CASE a.kind \in {"Method", "Function"} /\ a.arity >= 0 -> <<selfItem>> \o argItems
          [] a.kind \in {"Method", "Function"} /\ a.arity = -2 ->
                <<selfItem, Item(as[1], ArgsTy(a.sig), 1)>>
          [] a.kind \in {"Method", "Function"} /\ a.arity = -1 -> <<selfItem>>
          [] OTHER -> <<>>

\* the handles call_convert_value converts, in the order of the try_convert
\* calls of its argument list
ConvList(a, self, as) ==
    LET selfItem == Item(self, ArgTy(a.sig, 0), 0)
        argItems == [i \in 1..Len(as) |-> Item(as[i], ArgTy(a.sig, i), i)]
    IN  CASE a.kind = "Method" /\ a.arity >= 0 -> <<selfItem>> \o argItems
          [] a.kind = "Method" /\ a.arity = -2 -> <<selfItem, Item(as[1], ArgsTy(a.sig), 1)>>
          [] a.kind = "Method" /\ a.arity = -1 -> <<selfItem>>
          [] a.kind = "Function" /\ a.arity >= 0 -> argItems
          [] a.kind = "Function" /\ a.arity = -2 -> <<Item(as[1], ArgsTy(a.sig), 1)>>
          [] OTHER -> <<>>

\* arity -1 and Block hand the raw slice argv[0..argc) to the function
PassesSlice(a) == a.arity = -1

\* a *const Value: null, or the address of handles laid out in a row
NullPtr == [null |-> TRUE, at |-> <<>>]
PtrTo(hs) == [null |-> FALSE, at |-> hs]
\* the adapters of the other arities are given no argv
NoArgv == PtrTo(<<>>)

\* what a call of slice::from_raw_parts does: it returns a view, or the
\* process is aborted
SliceOf(view) == [aborts |-> FALSE, view |-> view]
Aborts == [aborts |-> TRUE, view |-> <<>>]

\* slice::from_raw_parts(argv, argc as usize): a view of the len handles at
\* data, in place. The adapters call it without looking at the pointer; a
\* null pointer is outside the safety contract of the function, also for a
\* slice of no element, so the behaviour is undefined: a build with debug
\* assertions checks the pointer and aborts the process with a panic that
\* does not unwind, a build without them makes a slice of len elements at
\* address 0, none of which can be read, and call_convert_value goes on
SliceFromRawParts(data, len) ==
    LET unreadable == [tag |-> "unreadable", val |-> 0]
    IN  IF data.null
        THEN {Aborts, SliceOf([i \in 1..len |-> unreadable])}
        ELSE {SliceOf(SubSeq(data.at, 1, len))}

\* the pointers the host passes for the handles hs: their address, and, for
\* a call without arguments, also null (rb_funcallv(recv, mid, 0, NULL),
\* rb_yield_0(0, NULL))
HostArgv(hs) == {PtrTo(hs)} \cup (IF hs = <<>> THEN {NullPtr} ELSE {})

\* variant of ConvertArg: a failed conversion is ignored and a default value
\* takes the argument's place
ConvertArgIgnoreFailure(item, conv) ==
    LET r == TryConvert(item.ty, item.h)
    IN  [cont |-> TRUE, converted |-> Append(conv, r.val), res |-> NoRes,
         panic |-> NoPayload]

\* one `x.try_convert()?` of the argument list: the converted value joins the
\* arguments, a failure leaves call_convert_value with that error
ConvertArg(item, conv) ==
    LET r == TryConvert(item.ty, item.h)
    IN  IF r.ok
        THEN [cont |-> TRUE, converted |-> Append(conv, r.val), res |-> NoRes,
              panic |-> NoPayload]
        ELSE IF r = DidNotReturn
        THEN [cont |-> FALSE, converted |-> conv, res |-> NoRes,
              panic |-> CustomPayload]
        ELSE [cont |-> FALSE, converted |-> conv, res |-> ErrV(r.err),
              panic |-> NoPayload]

\* variant of FuncArgList: the converted values are passed in reverse
FuncArgListReversed(a, conv, self) ==
    IF a.kind = "Block" THEN <<ProcFromValue(self)>>
    ELSE [i \in 1..Len(conv) |-> conv[Len(conv) + 1 - i]]

\* the typed values the user function is called with
FuncArgList(a, conv, self) ==
    IF a.kind = "Block" THEN <<ProcFromValue(self)>> ELSE conv

\* the whole argument list of call_convert_value from item i on: the
\* conversions run in order and the first failure ends them
RECURSIVE ConvertFrom(_, _, _)
ConvertFrom(items, i, conv) ==
    IF i > Len(items)
    THEN [cont |-> TRUE, converted |-> conv, res |-> NoRes, panic |-> NoPayload]
    ELSE LET st == ConvertArg(items[i], conv)
         IN  IF st.cont THEN ConvertFrom(items, i + 1, st.converted) ELSE st

(***************************************************************************)
(* The user function                                                       *)
(***************************************************************************)
Payloads ==
    {[ptype |-> "str", msg |-> "boom"],
     [ptype |-> "String", msg |-> "oops"],
     [ptype |-> "other", msg |-> ""]}

\* errors a user function returns; the second has the content of a
\* conversion error
UserErrors ==
    {NewError("RuntimeError", "user", NoHandle),
     NewError("TypeError", "Integer", Nil)}

Ret(kind, val, err, payload) ==
    [kind |-> kind, val |-> val, err |-> err, payload |-> payload]
NoRet == Ret("none", NoValue, NoError, NoPayload)

\* an order-sensitive digest of the arguments received
RECURSIVE Checksum(_)
Checksum(vals) ==
    IF Len(vals) = 0
    THEN 0
    ELSE (Checksum(SubSeq(vals, 1, Len(vals) - 1)) + Len(vals) * vals[Len(vals)].n) % 100

\* the items of a returned iterator: a value (Yield), an argument list
\* (YieldValues) or an RArray (YieldSplat), built from the number e
YieldItem(variant, e) ==
    CASE variant = "Yield" -> Typed("i8", e)
      [] variant = "YieldValues" -> <<Typed("i8", e), Typed("i8", e + 1)>>
      [] variant = "YieldSplat" -> RArrayT(<<IntH(e), IntH(e + 1)>>)

\* the sequence of n items an iterator produces, not in increasing order
YieldSeq(variant, n) == [i \in 1..n |-> YieldItem(variant, (5 * i) % 7)]

\* a returned Yield / YieldValues / YieldSplat: Iter(iter) or Enumerator(e),
\* with the sequence the iterator or the enumerator stands for
YieldOf(variant, kind, n) ==
    [variant |-> variant, kind |-> kind, seq |-> YieldSeq(variant, n),
     ends |-> "done"]
\* an iterator whose next panics after n items
PanickingIter(variant, n) ==
    [variant |-> variant, kind |-> "Iter", seq |-> YieldSeq(variant, n),
     ends |-> "panic"]

YieldKinds == {"yield", "ok_yield"}
RetYield(kind, y) ==
    [kind |-> kind, val |-> NoValue, err |-> NoError, payload |-> NoPayload, y |-> y]

\* what the wrapped function may do with its arguments: return a plain value
\* (Res = T), return Ok or Err (Res = Result<T, Error>), or panic; with a
\* Yield type as Res, return an iterator or an enumerator instead of a value
FuncOutcomes(a, fargs, slice) ==
    LET v == IF a.kind = "Init" THEN Unit
             ELSE Typed("i8", (Checksum(fargs) + Len(slice)) % 100)
        values == IF a.res = "T"
                  THEN {Ret("value", v, NoError, NoPayload),
                        Ret("ok", v, NoError, NoPayload)}
                  ELSE {RetYield(k, YieldOf(a.res, "Iter", n)) :
                            k \in YieldKinds, n \in 0..MaxYield}
                       \cup {RetYield(k, YieldOf(a.res, "Enumerator", MaxYield)) :
                            k \in YieldKinds}
                       \cup {RetYield(k, PanickingIter(a.res, n)) :
                            k \in YieldKinds, n \in 0..MaxYield}
    IN  values
        \cup {Ret("err", NoValue, e, NoPayload) : e \in UserErrors}
        \cup {Ret("panic", NoValue, NoError, p) : p \in Payloads}

(***************************************************************************)
(* Return value normalisation                                              *)
(***************************************************************************)
UnitH == [tag |-> "unit", val |-> 0]

\* variant of ReturnValueResult: the user's error is wrapped in a new error
ReturnValueResultWraps(r) ==
    IF r.ok
    THEN [res |-> OkV(IntoValue(r.val)), conv |-> 1]
    ELSE [res |-> ErrV(NewError("StandardError", r.err.msg, NoHandle)), conv |-> 0]

\* impl ReturnValue for Result<T, Error>: self.map(into_value_unchecked)
ReturnValueResult(r) ==
    IF r.ok
    THEN [res |-> OkV(IntoValue(r.val)), conv |-> 1]
    ELSE [res |-> ErrV(r.err), conv |-> 0]

\* impl ReturnValue for T: Ok(self).into_return_value()
ReturnValueT(v) == ReturnValueResult(OkT(v))

\* variant of InitReturn: the Err of the init function is dropped
InitReturnDropsError(rt) == [res |-> OkV(UnitH), conv |-> 0]

\* impl InitReturn for () and for Result<(), Error>
InitReturn(rt) ==
    IF rt.kind = "err"
    THEN [res |-> ErrV(rt.err), conv |-> 0]
    ELSE [res |-> OkV(UnitH), conv |-> 0]

\* Value::default()
DefaultValue == Nil
\* e.into(): the handle of an Enumerator
EnumH(y) == [tag |-> "enumerator", val |-> Len(y.seq)]

\* variant of ReturnValueYield: the Iter branch returns without driving
ReturnValueYieldNotDriven(y) ==
    IF y.kind = "Iter"
    THEN [res |-> OkV(DefaultValue), drive |-> <<>>]
    ELSE [res |-> OkV(EnumH(y)), drive |-> <<>>]

\* variant of ReturnValueYield: the Enumerator branch drives the sequence
ReturnValueYieldDrivesEnumerator(y) ==
    IF y.kind = "Iter"
    THEN [res |-> OkV(DefaultValue), drive |-> y.seq]
    ELSE [res |-> OkV(EnumH(y)), drive |-> y.seq]

\* variant of ReturnValueYield: the Iter branch returns the number of items
ReturnValueYieldReturnsCount(y) ==
    IF y.kind = "Iter"
    THEN [res |-> OkV(IntH(Len(y.seq))), drive |-> y.seq]
    ELSE [res |-> OkV(EnumH(y)), drive |-> <<>>]

\* impl ReturnValue for Yield<I>, YieldValues<I>, YieldSplat<I>:
\*   Iter(iter) => { do_yield_iter(iter); Ok(Value::default()) }
\*   Enumerator(e) => Ok(e.into())
\* drive is the sequence handed to do_yield_iter
ReturnValueYield(y) ==
    IF y.kind = "Iter"
    THEN [res |-> OkV(DefaultValue), drive |-> y.seq]
    ELSE [res |-> OkV(EnumH(y)), drive |-> <<>>]

\* variant of ReturnValueResultYield: Ok(Iter) returns without driving
ReturnValueResultYieldNotDriven(r) ==
    IF r.ok
    THEN ReturnValueYieldNotDriven(r.val)
    ELSE [res |-> ErrV(r.err), drive |-> <<>>]

\* impl ReturnValue for Result<Yield<I>, Error>, Result<YieldValues<I>, Error>
\* and Result<YieldSplat<I>, Error>: self?.into_return_value()
ReturnValueResultYield(r) ==
    IF r.ok
    THEN ReturnValueYield(r.val)
    ELSE [res |-> ErrV(r.err), drive |-> <<>>]

\* .into_return_value() / .into_block_return() / .into_init_return() on what
\* the function returned
IntoReturnValue(a, rt) ==
    CASE a.kind = "Init" -> InitReturn(rt)
      [] rt.kind = "value" -> ReturnValueT(rt.val)
      [] rt.kind = "ok" -> ReturnValueResult(OkT(rt.val))
      [] rt.kind = "err" /\ a.kind # "Init" /\ a.res = "T"
            -> ReturnValueResult(ErrT(rt.err))
      [] rt.kind = "err" /\ a.kind # "Init" /\ a.res # "T"
            -> [res |-> ReturnValueResultYield(ErrT(rt.err)).res, conv |-> 0]
      [] rt.kind = "yield" -> [res |-> ReturnValueYield(rt.y).res, conv |-> 0]
      [] rt.kind = "ok_yield"
            -> [res |-> ReturnValueResultYield(OkT(rt.y)).res, conv |-> 0]

\* the items into_return_value hands to do_yield_iter / do_yield_values_iter
\* / do_yield_splat_iter
Drive(rt) ==
    CASE rt.kind = "yield" -> ReturnValueYield(rt.y).drive
      [] rt.kind = "ok_yield" -> ReturnValueResultYield(OkT(rt.y)).drive
      [] OTHER -> <<>>

\* how the iteration of do_yield_iter ends: the iterator is exhausted, or
\* its next panics
Ends(rt) ==
    IF rt.kind \in YieldKinds /\ rt.y.kind = "Iter" THEN rt.y.ends ELSE "done"

\* the handles the block is called with for one item: rb_yield(item),
\* rb_yield_values(items..), rb_yield_splat(array)
YieldCall(variant, item) ==
    CASE variant = "Yield" -> <<IntoValue(item)>>
      [] variant = "YieldValues" -> [i \in 1..Len(item) |-> IntoValue(item[i])]
      [] variant = "YieldSplat" -> item.elems

(***************************************************************************)
(* call_handle_error                                                       *)
(***************************************************************************)
Normal(r) == [panicked |-> FALSE, payload |-> NoPayload, res |-> r]
Panicked(p) == [panicked |-> TRUE, payload |-> p, res |-> NoRes]

\* variant of CatchUnwind: no capture region, the unwind goes on
CatchUnwindMissing(region) ==
    IF region.panicked
    THEN [escaped |-> TRUE, caught |-> FALSE, res |-> NoRes]
    ELSE [escaped |-> FALSE, caught |-> FALSE, res |-> region.res]

\* variant of CatchUnwind: the payload of the unwind is dropped
CatchUnwindDropsPayload(region) ==
    IF region.panicked
    THEN [escaped |-> FALSE, caught |-> TRUE,
          res |-> ErrV(NewError("RuntimeError", "panic", NoHandle))]
    ELSE [escaped |-> FALSE, caught |-> FALSE, res |-> region.res]

\* variant of CatchUnwind: a caught unwind yields the default handle
CatchUnwindYieldsDefault(region) ==
    IF region.panicked
    THEN [escaped |-> FALSE, caught |-> TRUE, res |-> OkV(Nil)]
    ELSE [escaped |-> FALSE, caught |-> FALSE, res |-> region.res]

\* match catch_unwind(|| call_convert_value(..)) {
\*     Ok(v) => v, Err(e) => Err(Error::from_panic(e)) }
CatchUnwind(region) ==
    IF region.panicked
    THEN [escaped |-> FALSE, caught |-> TRUE, res |-> ErrV(FromPanic(region.payload))]
    ELSE [escaped |-> FALSE, caught |-> FALSE, res |-> region.res]

\* variant of UnwrapRes: raise returns and the default handle is returned
UnwrapResRaiseReturns(r) ==
    IF r.ok
    THEN [ret |-> TRUE, raise |-> FALSE, val |-> r.val, err |-> NoError]
    ELSE [ret |-> TRUE, raise |-> TRUE, val |-> Nil, err |-> r.err]

\* variant of UnwrapRes: an error is swallowed and the default handle returned
UnwrapResSwallows(r) ==
    IF r.ok
    THEN [ret |-> TRUE, raise |-> FALSE, val |-> r.val, err |-> NoError]
    ELSE [ret |-> TRUE, raise |-> FALSE, val |-> Nil, err |-> NoError]

\* match res { Ok(v) => v, Err(e) => raise(e) }
UnwrapRes(r) ==
    IF r.ok
    THEN [ret |-> TRUE, raise |-> FALSE, val |-> r.val, err |-> NoError]
    ELSE [ret |-> FALSE, raise |-> TRUE, val |-> NoHandle, err |-> r.err]

(***************************************************************************)
(* Method::arity of the raw function pointers                              *)
(***************************************************************************)
\* the parameter types of unsafe extern "C" fn(..) -> Value
RbArySig == <<"Value", "RArray">>
CArySig == <<"c_int", "*const Value", "Value">>
ValueSig(n) == [i \in 1..n |-> "Value"]

\* the signatures private::Method is implemented for
Signatures == {RbArySig, CArySig} \cup {ValueSig(n + 1) : n \in 0..MaxArity}

\* variant of Arity: the self parameter is counted as an argument
ArityCountsSelf(sig) ==
    CASE sig = RbArySig -> -2
      [] sig = CArySig -> -1
      [] OTHER -> Len(sig)

\* private::Method::arity() of the impl for the signature
Arity(sig) ==
    CASE sig = RbArySig -> -2
      [] sig = CArySig -> -1
      [] OTHER -> Len(sig) - 1

\* the signature of the pointer method!/function! return: `anon as unsafe
\* extern "C" fn(..) -> Value` of the arm for the adapter's arity
AnonSignature(a) ==
    CASE a.arity = -2 -> RbArySig
      [] a.arity = -1 -> CArySig
      [] OTHER -> ValueSig(a.arity + 1)

(***************************************************************************)
(* The state machine                                                       *)
(***************************************************************************)
\* no conversion is applied on its own while a trampoline is registered
NoConv == [stage |-> "none"]
\* a trampoline that was not written with method!/function!
NoMacro == [name |-> "none", arg |-> NoArg, error |-> ""]

\* an unwind: where in call_convert_value it started, and its payload
Unwind(at, payload) == [at |-> at, payload |-> payload]
NoUnwind == Unwind("none", NoPayload)

\* no call of the trampoline is running and none has run
NoCall ==
    /\ rb_self = NoHandle
    /\ args = <<>>
    /\ argv = NoArgv
    /\ argSlice = <<>>
    /\ pc = "idle"
    /\ idx = 0
    /\ converted = <<>>
    /\ convLog = <<>>
    /\ funcCalls = 0
    /\ funcArgs = <<>>
    /\ funcSlice = <<>>
    /\ ret = NoRet
    /\ intoValues = 0
    /\ res = NoRes
    /\ raised = <<>>
    /\ returned = <<>>
    /\ unwound = FALSE
    /\ bridge = <<>>
    /\ yielded = <<>>
    /\ calls = 0
    /\ built = 0
    /\ lastEnd = "none"
    /\ unwind = NoUnwind

\* a trampoline written with method!/function!, when the invocation
\* compiles, or an Init or Block adapter used directly
Init ==
    /\ \/ \E name \in MacroNames, arg \in ArityArgs, sig \in Sigs \cup {"custom"},
              r \in {"T"} \cup YieldTypes :
            /\ Registered(name, arg, sig, r) \in Adapters \cup {NoAdapter}
            /\ adapter = Registered(name, arg, sig, r)
            /\ macro = [name |-> name, arg |-> arg,
                        error |-> MacroRules(name, arg).error]
       \/ /\ adapter \in {a \in Adapters : a.kind \in {"Init", "Block"}}
          /\ macro = NoMacro
    /\ conversion = NoConv
    /\ NoCall

\* the host calls a registered pointer at most CallLimit times: repeated
\* invocations are explored for the adapters of arity up to MaxRepeatArity
CallLimit(a) == IF a.arity <= MaxRepeatArity THEN MaxCalls ELSE 1

\* variant of NewAdapter: one adapter is built by the first invocation and
\* used again by the later ones
NewAdapterReusesFirst(n) == IF n = 0 THEN 1 ELSE n

\* anon: `Method1::new($name)`, a new adapter value for the invocation
NewAdapter(n) == n + 1

\* the host calls the registered function pointer: anon builds the adapter and
\* call_handle_error enters the capture region
StartCall(s, as, p) ==
    /\ rb_self' = s
    /\ args' = AnonForward(as)
    /\ argv' = p
    /\ \E sl \in (IF PassesSlice(adapter)
                   THEN SliceFromRawParts(p, Len(as))
                   ELSE {SliceOf(<<>>)}) :
          /\ argSlice' = sl.view
          /\ pc' = IF sl.aborts THEN "aborted" ELSE "convert"
    /\ idx' = 1
    /\ bridge' = <<"RUNNING">>
    /\ calls' = calls + 1
    /\ built' = NewAdapter(built)
    /\ UNCHANGED <<conversion, macro, unwind, adapter, converted, convLog, funcCalls, funcArgs, funcSlice,
                   ret, intoValues, res, raised, returned, unwound,
                   yielded, lastEnd>>

\* method!/function! with arity 0..16
TrampolineN ==
    /\ pc = "idle"
    /\ calls < CallLimit(adapter)
    /\ adapter.kind \in {"Method", "Function"}
    /\ adapter.arity >= 0
    /\ \E g \in OddPlacements(0, adapter.arity) :
         \E hs \in [1..MaxOdd -> OddHandlesOf(adapter.sig)] :
            LET H == CallHandles(adapter.arity, g, hs)
            IN  StartCall(H[0], [i \in 1..adapter.arity |-> H[i]], NoArgv)

\* method!/function! with arity -2: self and one RArray of arguments
TrampolineRbAry ==
    /\ pc = "idle"
    /\ calls < CallLimit(adapter)
    /\ adapter.kind \in {"Method", "Function"}
    /\ adapter.arity = -2
    /\ \E k \in 0..MaxArgc :
         \E g \in OddPlacements(0, k) :
            \E hs \in [1..MaxOdd -> OddHandlesOf(adapter.sig)] :
               LET H == CallHandles(k, g, hs)
               IN  StartCall(H[0], <<ArrayOf([i \in 1..k |-> H[i]])>>, NoArgv)

\* method!/function! with arity -1: argc, argv and self
TrampolineCAry ==
    /\ pc = "idle"
    /\ calls < CallLimit(adapter)
    /\ adapter.kind \in {"Method", "Function"}
    /\ adapter.arity = -1
    /\ \E argc \in 0..MaxArgc :
         \E g \in OddPlacements(0, argc) :
            \E hs \in [1..MaxOdd -> OddHandlesOf(adapter.sig)] :
               LET H == CallHandles(argc, g, hs)
                   held == [i \in 1..argc |-> H[i]]
               IN  \E p \in HostArgv(held) : StartCall(H[0], held, p)

\* Block::call_handle_error(argc, argv, blockarg)
TrampolineBlock ==
    /\ pc = "idle"
    /\ calls < CallLimit(adapter)
    /\ adapter.kind = "Block"
    /\ \E b \in {Nil, ProcH} :
         \E argc \in 0..MaxArgc :
            \E g \in OddPlacements(1, argc) :
               \E hs \in [1..MaxOdd -> OddHandlesOf(adapter.sig)] :
                  LET H == CallHandles(argc, g, hs)
                      held == [i \in 1..argc |-> H[i]]
                  IN  \E p \in HostArgv(held) : StartCall(b, held, p)

\* Init::call_handle_error()
TrampolineInit ==
    /\ pc = "idle"
    /\ calls < CallLimit(adapter)
    /\ adapter.kind = "Init"
    /\ StartCall(NoHandle, <<>>, NoArgv)

\* variant of Convert: a failed conversion is attempted a second time
ConvertRetriesOnce ==
    /\ pc = "convert"
    /\ idx <= Len(ConvList(adapter, rb_self, args))
    /\ LET item == ConvList(adapter, rb_self, args)[idx]
           st == ConvertArg(item, converted)
           first == \A i \in 1..Len(convLog) : convLog[i] # item.slot
       IN  /\ convLog' = Append(convLog, item.slot)
           /\ converted' = st.converted
           /\ IF st.cont
              THEN /\ idx' = idx + 1
                   /\ UNCHANGED <<pc, res>>
              ELSE IF first
              THEN UNCHANGED <<pc, res, idx>>
              ELSE /\ res' = CatchUnwind(Normal(st.res)).res
                   /\ pc' = "match"
                   /\ UNCHANGED idx
    /\ UNCHANGED <<conversion, macro, argv, argSlice, unwind, adapter, rb_self, args, funcCalls, funcArgs, funcSlice, ret,
                   intoValues, raised, returned, unwound, bridge,
                   yielded, calls, built, lastEnd>>

\* variant of Convert: the capture region covers the call of the function
\* only, so a panic of a conversion leaves the trampoline
ConvertOutsideRegion ==
    /\ pc = "convert"
    /\ idx <= Len(ConvList(adapter, rb_self, args))
    /\ LET item == ConvList(adapter, rb_self, args)[idx]
           st == ConvertArg(item, converted)
       IN  /\ convLog' = Append(convLog, item.slot)
           /\ converted' = st.converted
           /\ IF st.cont
              THEN /\ idx' = idx + 1
                   /\ UNCHANGED <<pc, res, unwind, unwound>>
              ELSE IF st.panic # NoPayload
              THEN /\ unwind' = Unwind("convert", st.panic)
                   /\ unwound' = TRUE
                   /\ pc' = "escaped"
                   /\ UNCHANGED <<idx, res>>
              ELSE /\ res' = CatchUnwind(Normal(st.res)).res
                   /\ pc' = "match"
                   /\ UNCHANGED <<idx, unwind, unwound>>
    /\ UNCHANGED <<conversion, macro, argv, argSlice, adapter, rb_self, args, funcCalls, funcArgs, funcSlice, ret,
                   intoValues, raised, returned, bridge,
                   yielded, calls, built, lastEnd>>

\* the next try_convert of the argument list
Convert ==
    /\ pc = "convert"
    /\ idx <= Len(ConvList(adapter, rb_self, args))
    /\ LET item == ConvList(adapter, rb_self, args)[idx]
           st == ConvertArg(item, converted)
       IN  /\ convLog' = Append(convLog, item.slot)
           /\ converted' = st.converted
           /\ IF st.cont
              THEN /\ idx' = idx + 1
                   /\ UNCHANGED <<pc, res, unwind>>
              ELSE IF st.panic # NoPayload
              THEN /\ unwind' = Unwind("convert", st.panic)
                   /\ pc' = "unwinding"
                   /\ UNCHANGED <<idx, res>>
              ELSE /\ res' = CatchUnwind(Normal(st.res)).res
                   /\ pc' = "match"
                   /\ UNCHANGED <<idx, unwind>>
    /\ UNCHANGED <<conversion, macro, argv, argSlice, adapter, rb_self, args, funcCalls, funcArgs, funcSlice, ret,
                   intoValues, raised, returned, unwound, bridge,
                   yielded, calls, built, lastEnd>>

\* every argument converted: (self.func)(..) runs
CallFunc ==
    /\ pc = "convert"
    /\ idx > Len(ConvList(adapter, rb_self, args))
    /\ LET fargs == FuncArgList(adapter, converted, rb_self)
           slice == argSlice
       IN  /\ funcArgs' = fargs
           /\ funcSlice' = slice
           /\ \E o \in FuncOutcomes(adapter, fargs, slice) :
                /\ ret' = o
                /\ pc' = IF o.kind = "panic" THEN "unwinding"
                          ELSE IF Drive(o) # <<>> \/ Ends(o) = "panic"
                          THEN "yielding"
                          ELSE "into_return"
                /\ unwind' = IF o.kind = "panic"
                              THEN Unwind("func", o.payload)
                              ELSE unwind
    /\ funcCalls' = funcCalls + 1
    /\ UNCHANGED <<conversion, macro, argv, argSlice, adapter, rb_self, args, idx, converted, convLog, intoValues,
                   res, raised, returned, unwound, bridge,
                   yielded, calls, built, lastEnd>>

\* into_return_value of an Iter: do_yield_iter takes the next item of the
\* iterator and calls the block with it
DoYieldIter ==
    /\ pc = "yielding"
    /\ LET d == Drive(ret)
           i == Len(yielded) + 1
       IN  IF i > Len(d)
           THEN /\ unwind' = Unwind("result", IterPayload)
                /\ pc' = "unwinding"
                /\ UNCHANGED yielded
           ELSE /\ yielded' = Append(yielded, YieldCall(ret.y.variant, d[i]))
                /\ pc' = IF i = Len(d) /\ Ends(ret) = "done"
                          THEN "into_return"
                          ELSE "yielding"
                /\ UNCHANGED unwind
    /\ UNCHANGED <<conversion, macro, argv, argSlice, adapter, rb_self, args, idx, converted, convLog, funcCalls,
                   funcArgs, funcSlice, ret, intoValues, res, raised, returned,
                   unwound, bridge, calls, built, lastEnd>>

\* the function returned: its result is normalised and leaves the region
IntoReturn ==
    /\ pc = "into_return"
    /\ LET r == IntoReturnValue(adapter, ret)
       IN  /\ res' = CatchUnwind(Normal(r.res)).res
           /\ intoValues' = intoValues + r.conv
    /\ pc' = "match"
    /\ UNCHANGED <<conversion, macro, argv, argSlice, unwind, adapter, rb_self, args, idx, converted, convLog, funcCalls,
                   funcArgs, funcSlice, ret, raised, returned, unwound, bridge,
                   yielded, calls, built, lastEnd>>

\* a panic inside call_convert_value: the unwind reaches catch_unwind
CatchPanic ==
    /\ pc = "unwinding"
    /\ LET c == CatchUnwind(Panicked(unwind.payload))
       IN  IF c.escaped
           THEN /\ unwound' = TRUE
                /\ pc' = "escaped"
                /\ UNCHANGED <<res, bridge>>
           ELSE /\ res' = c.res
                /\ bridge' = IF c.caught THEN Append(bridge, "CAUGHT") ELSE bridge
                /\ pc' = "match"
                /\ UNCHANGED unwound
    /\ UNCHANGED <<conversion, macro, argv, argSlice, unwind, adapter, rb_self, args, idx, converted, convLog, funcCalls,
                   funcArgs, funcSlice, ret, intoValues, raised, returned,
                   yielded, calls, built, lastEnd>>

\* the final match of call_handle_error: return the handle or raise
MatchRes ==
    /\ pc = "match"
    /\ LET u == UnwrapRes(res)
       IN  /\ raised' = IF u.raise THEN Append(raised, u.err) ELSE raised
           /\ returned' = IF u.ret THEN Append(returned, u.val) ELSE returned
           /\ bridge' = IF u.raise /\ u.ret THEN bridge \o <<"RAISED", "EXIT">>
                        ELSE IF u.raise THEN Append(bridge, "RAISED")
                        ELSE Append(bridge, "EXIT")
           /\ pc' = IF u.ret THEN "returned" ELSE "raised"
    /\ UNCHANGED <<conversion, macro, argv, argSlice, unwind, adapter, rb_self, args, idx, converted, convLog, funcCalls,
                   funcArgs, funcSlice, ret, intoValues, res, unwound,
                   yielded, calls, built, lastEnd>>

\* how the invocation that is over ended
EndOfCall ==
    IF pc = "returned" THEN "returned"
    ELSE IF unwind.at # "none" THEN "caught"
    ELSE "raised"

\* variant of HostResume: the values converted by the call that is over stay
\* in place for the next one
HostResumeKeepsConverted ==
    /\ pc \in {"returned", "raised"}
    /\ pc' = "idle"
    /\ rb_self' = NoHandle
    /\ args' = <<>>
    /\ argv' = NoArgv
    /\ argSlice' = <<>>
    /\ idx' = 0
    /\ convLog' = <<>>
    /\ funcCalls' = 0
    /\ funcArgs' = <<>>
    /\ funcSlice' = <<>>
    /\ ret' = NoRet
    /\ intoValues' = 0
    /\ res' = NoRes
    /\ raised' = <<>>
    /\ returned' = <<>>
    /\ bridge' = <<>>
    /\ yielded' = <<>>
    /\ lastEnd' = EndOfCall
    /\ unwind' = NoUnwind
    /\ UNCHANGED <<conversion, macro, adapter, unwound, calls, built, converted>>

\* the call is over: the host goes on, and may call the trampoline again
HostResume ==
    /\ pc \in {"returned", "raised"}
    /\ pc' = "idle"
    /\ rb_self' = NoHandle
    /\ args' = <<>>
    /\ argv' = NoArgv
    /\ argSlice' = <<>>
    /\ idx' = 0
    /\ converted' = <<>>
    /\ convLog' = <<>>
    /\ funcCalls' = 0
    /\ funcArgs' = <<>>
    /\ funcSlice' = <<>>
    /\ ret' = NoRet
    /\ intoValues' = 0
    /\ res' = NoRes
    /\ raised' = <<>>
    /\ returned' = <<>>
    /\ bridge' = <<>>
    /\ yielded' = <<>>
    /\ lastEnd' = EndOfCall
    /\ unwind' = NoUnwind
    /\ UNCHANGED <<conversion, macro, adapter, unwound, calls, built>>

Next ==
    \/ TrampolineN
    \/ TrampolineRbAry
    \/ TrampolineCAry
    \/ TrampolineBlock
    \/ TrampolineInit
    \/ Convert
    \/ CallFunc
    \/ DoYieldIter
    \/ IntoReturn
    \/ CatchPanic
    \/ MatchRes
    \/ HostResume

Spec == Init /\ [][Next]_vars

TypeOK ==
    /\ adapter \in Adapters \cup {NoAdapter}
    /\ pc \in {"idle", "convert", "yielding", "into_return", "unwinding",
               "match", "returned", "raised", "escaped", "aborted"}
    /\ funcCalls \in 0..1
    /\ Len(raised) + Len(returned) <= 1

(***************************************************************************)
(* Conversions applied on their own: T::try_convert(val), and into_value   *)
(* of the value of an integer type                                         *)
(***************************************************************************)
\* 0, 1, -1 and, for every integer type, its bounds and one past each
Boundaries(ty) ==
    LET w == Width(ty)
    IN  IF Signed(ty)
        THEN {[neg |-> FALSE, mag |-> Pow2Minus1Mag(w - 1)],
              [neg |-> FALSE, mag |-> Pow2Mag(w - 1)],
              [neg |-> TRUE, mag |-> Pow2Mag(w - 1)],
              [neg |-> TRUE, mag |-> Pow2Plus1Mag(w - 1)]}
        ELSE {[neg |-> FALSE, mag |-> Pow2Minus1Mag(w)],
              [neg |-> FALSE, mag |-> Pow2Mag(w)]}
IntHandles ==
    {IntH(0), IntH(1), IntH(0 - 1)}
    \cup {HandleOfNum(x) : x \in UNION {Boundaries(ty) : ty \in IntTypes}}
NonIntegers == {Nil, ProcH, ArrayH(1)}

\* the tuple type of n elements: i8 and u8 in turn
TupleTy(n) == TupleOf([i \in 1..n |-> Scalar(ArgTy("mixed", i - 1))])
TupleTypes ==
    {TupleTy(n) : n \in 1..TupleMax}
    \cup {TupleOf(<<OptionOf(Scalar("i8")), TupleTy(1)>>)}
OptionTypes ==
    {OptionOf(Scalar("i8")), OptionOf(Scalar("u8")),
     OptionOf(OptionOf(Scalar("i8"))), OptionOf(TupleTy(2))}

\* handles that fail one of the conversions to i8 and u8, or both
TupleOdd == OddHandles \cup {IntH(0 - 1)}
\* the Array of k elements whose odd elements are as g and hs say
ArrayWith(k, g, hs) ==
    LET H == CallHandles(k, g, hs) IN ArrayOf([i \in 1..k |-> H[i]])
\* Arrays of k elements of which at most MaxOdd are odd
ArraysOf(k) ==
    {ArrayWith(k, g, hs) :
        g \in OddPlacements(1, k), hs \in [1..MaxOdd -> TupleOdd]}
\* Arrays one element shorter than, as long as and one longer than n
ArraysAround(n) ==
    UNION {ArraysOf(k) : k \in {j \in (n - 1)..(n + 1) : j >= 0}}
NestedHandles ==
    {ArrayOf(<<a, ArrayOf(<<b>>)>>) : a \in TupleOdd \cup {IntH(1)},
                                      b \in TupleOdd \cup {IntH(1)}}

\* Vec targets, with Arrays of Arrays to convert
VecInputs ==
    {Call(t, h) :
        t \in {VecOf(Scalar("i8")), VecOf(TupleTy(1)),
               VecOf(TupleOf(<<Scalar("RArray")>>))},
        h \in NonIntegers
              \cup {ArrayOf(<<>>), ArrayOf(<<IntH(1), IntH(2)>>),
                    ArrayOf(<<ArrayOf(<<IntH(1)>>), ArrayOf(<<Nil>>)>>),
                    ArrayOf(<<ArrayOf(<<ArrayH(1)>>), ArrayOf(<<ArrayH(0)>>)>>)}}

ConvInputs ==
    {Call(Scalar(ty), h) : ty \in IntTypes, h \in IntHandles \cup NonIntegers}
    \cup {Call(t, h) : t \in OptionTypes,
                       h \in NonIntegers \cup TupleOdd \cup ArraysAround(2)}
    \cup {Call(t, h) : t \in TupleTypes,
                       h \in NonIntegers \cup TupleOdd \cup NestedHandles}
    \cup VecInputs

NoOutcome == Outcome(ErrT(NoError), <<>>)

\* the conversion to type t of the handle h, before it runs
ConvStart(t, h) ==
    [stage |-> "input", ty |-> t, h |-> h, out |-> NoOutcome, back |-> NoHandle]

\* a tuple type is also tried on the Arrays one element shorter than, as
\* long as and one longer than the tuple
ConvInit ==
    /\ adapter = NoAdapter
    /\ macro = NoMacro
    /\ NoCall
    /\ \/ \E in \in ConvInputs : conversion = ConvStart(in.ty, in.h)
       \/ \E t \in TupleTypes :
             \E k \in {j \in (Len(t.args) - 1)..(Len(t.args) + 1) : j >= 0} :
                \E g \in OddPlacements(1, k), hs \in [1..MaxOdd -> TupleOdd] :
                   conversion = ConvStart(t, ArrayWith(k, g, hs))

\* T::try_convert(val)
ApplyTryConvert ==
    /\ conversion.stage = "input"
    /\ conversion' = [conversion EXCEPT
                         !.stage = "converted",
                         !.out = TryConvertOf(conversion.ty, conversion.h)]
    /\ UNCHANGED <<adapter, rb_self, args, pc, idx, converted, convLog,
                   funcCalls, funcArgs, funcSlice, ret, intoValues, res,
                   raised, returned, unwound, bridge, yielded, calls, built,
                   lastEnd, macro, unwind, argv, argSlice>>

\* into_value of the integer that try_convert gave
ApplyIntoValue ==
    /\ conversion.stage = "converted"
    /\ conversion.ty.ctor \in IntTypes
    /\ conversion.out.res.ok
    /\ conversion' = [conversion EXCEPT
                         !.stage = "back",
                         !.back = IntoValue(conversion.out.res.val)]
    /\ UNCHANGED <<adapter, rb_self, args, pc, idx, converted, convLog,
                   funcCalls, funcArgs, funcSlice, ret, intoValues, res,
                   raised, returned, unwound, bridge, yielded, calls, built,
                   lastEnd, macro, unwind, argv, argSlice>>

ConvNext ==
    \/ ApplyTryConvert
    \/ ApplyIntoValue

ConvSpec == ConvInit /\ [][ConvNext]_vars

(***************************************************************************)
(* Vocabulary of the properties                                            *)
(***************************************************************************)
FixedArity == adapter.kind \in {"Method", "Function"} /\ adapter.arity >= 0
InCall == pc # "idle"
Done == pc \in {"returned", "raised"}

\* the slots the adapter is to convert, left to right: self (slot 0) for a
\* method, then the positional parameters; for arity -2 the one parameter
\* args, the container (slot 1); for arity -1 no parameter but self
SlotOrder ==
    LET n == IF adapter.arity >= 0 THEN adapter.arity
             ELSE IF adapter.arity = -2 THEN 1
             ELSE 0
    IN  IF adapter.kind = "Method" THEN <<0>> \o [i \in 1..n |-> i]
        ELSE IF adapter.kind = "Function" THEN [i \in 1..n |-> i]
        ELSE <<>>
Slots == {SlotOrder[i] : i \in 1..Len(SlotOrder)}

HandleAt(slot) == IF slot = 0 THEN rb_self ELSE args[slot]
\* the target type of a slot: Args for the container of arity -2
SlotTy(slot) ==
    IF adapter.arity = -2 /\ slot = 1
    THEN ArgsTy(adapter.sig)
    ELSE ArgTy(adapter.sig, slot)
ConvAt(slot) == TryConvert(SlotTy(slot), HandleAt(slot))
FailingSlots == {k \in Slots : ~ConvAt(k).ok}
\* the place in the slot order of the leftmost slot whose handle does not
\* convert, from place p on; 0 when every handle converts
RECURSIVE FirstFailingPlaceFrom(_)
FirstFailingPlaceFrom(p) ==
    IF p > Len(SlotOrder) THEN 0
    ELSE IF ~ConvAt(SlotOrder[p]).ok THEN p
    ELSE FirstFailingPlaceFrom(p + 1)
FirstFailingPlace == FirstFailingPlaceFrom(1)
SomeFails == FirstFailingPlace # 0
\* the leftmost slot whose handle does not convert
FirstFailing == SlotOrder[FirstFailingPlace]
\* the conversion of that slot does not return an error: it panics
FirstPanics == SomeFails /\ ConvAt(FirstFailing) = DidNotReturn

\* the converted values in positional order
ExpectedArgs == [i \in 1..Len(SlotOrder) |-> ConvAt(SlotOrder[i]).val]

(***************************************************************************)
(* C1: for every arity 0..16, MethodN and FunctionN: when self (MethodN)   *)
(* and all argument handles convert and the function returns a value       *)
(* without panicking, the call invokes the function exactly once with the  *)
(* converted values in positional order (self first), returns into_value   *)
(* of the function's result and never calls raise.                         *)
(***************************************************************************)
C1_SuccessInvokesOnceInOrder ==
    (/\ FixedArity /\ adapter.res = "T"
     /\ Done /\ ~SomeFails /\ ret.kind \notin {"err", "panic"})
        => /\ funcCalls = 1
           /\ funcArgs = ExpectedArgs
           /\ ret.kind \in {"value", "ok"}
           /\ returned = <<IntoValue(ret.val)>>
           /\ raised = <<>>
           /\ pc = "returned"

C1_Witness ==
    /\ adapter.kind = "Method" /\ adapter.arity = MaxArity /\ adapter.sig = "mixed"
    /\ pc = "returned"
    /\ funcCalls = 1
    /\ Len(funcArgs) = MaxArity + 1
    /\ funcArgs[1] = Typed("i8", 0) /\ funcArgs[2] = Typed("u8", 1)
    /\ returned = <<IntoValue(ret.val)>>

(***************************************************************************)
(* C2: no unwind ever leaves call_handle_error, at any adapter: a call in  *)
(* which the function panicked is on its way to raise, and a call ends     *)
(* only by returning a handle or by calling raise.                         *)
(***************************************************************************)
C2_NoUnwindLeavesTrampoline ==
    /\ ~unwound
    /\ pc # "escaped"
    /\ (ret.kind = "panic") => /\ pc \in {"unwinding", "match", "raised"}
                               /\ returned = <<>>

C2_Witness ==
    /\ adapter.kind = "Block"
    /\ ret.kind = "panic"
    /\ pc = "raised"
    /\ ~unwound

(***************************************************************************)
(* C3: for all arities, if an argument fails conversion the function is    *)
(* never invoked during that call and the call ends in raise, not in a     *)
(* normal return.                                                          *)
(***************************************************************************)
C3_FailedConversionNeverInvokes ==
    (FixedArity /\ InCall /\ SomeFails)
        => /\ funcCalls = 0
           /\ returned = <<>>
           /\ pc \in {"convert", "unwinding", "match", "raised"}
           /\ Done => Len(raised) = 1

C3_Witness ==
    /\ adapter.kind = "Function" /\ adapter.arity = 3
    /\ pc = "raised"
    /\ FailingSlots = {2}
    /\ convLog = <<1, 2>>
    /\ funcCalls = 0

(***************************************************************************)
(* The twin of a call: the same call with the handles of slots k and k2    *)
(* exchanged, evaluated with the argument list of call_convert_value.      *)
(***************************************************************************)
TwinHandle(k, k2, slot) ==
    IF slot = k THEN HandleAt(k2) ELSE IF slot = k2 THEN HandleAt(k) ELSE HandleAt(slot)
TwinSelf(k, k2) == IF adapter.kind = "Method" THEN TwinHandle(k, k2, 0) ELSE rb_self
TwinArgs(k, k2) == [i \in 1..adapter.arity |-> TwinHandle(k, k2, i)]
TwinOutcome(k, k2) ==
    ConvertFrom(ConvList(adapter, TwinSelf(k, k2), TwinArgs(k, k2)), 1, <<>>)
\* in the twin, slot k2 fails conversion and no other slot does
TwinFailsOnlyAt(k, k2) ==
    \A slot \in Slots :
        TryConvert(ArgTy(adapter.sig, slot), TwinHandle(k, k2, slot)).ok <=> slot # k2

(***************************************************************************)
(* C4: when the K-th argument fails conversion, the error raised          *)
(* identifies the failing position K, so two calls that differ only in     *)
(* which position fails raise different errors.                            *)
(***************************************************************************)
C4_ErrorIdentifiesPosition ==
    (FixedArity /\ pc = "raised" /\ SomeFails /\ ~FirstPanics)
        => LET k == FirstFailing
           IN  Cardinality(FailingSlots) = 1
                 => \A k2 \in Slots \ {k} :
                       TwinFailsOnlyAt(k, k2)
                          => TwinOutcome(k, k2).res.err # raised[1]

\* two calls that differ only in the position of the failing handle: with
\* 128 as the first and as the second argument of a function of two i8, both
\* raise the same RangeError
C4_Witness ==
    /\ adapter.kind = "Method" /\ adapter.arity = 2 /\ adapter.sig = "i8"
    /\ pc = "raised"
    /\ FailingSlots = {1}
    /\ TwinFailsOnlyAt(1, 2)
    /\ raised = <<NewError("RangeError", "i8", IntH(I8Max + 1))>>
    /\ TwinOutcome(1, 2).res.err = raised[1]

(***************************************************************************)
(* C5: within one call the handles are converted strictly left to right    *)
(* (self first for MethodN) and conversion stops at the first failure:     *)
(* every slot before the leftmost failing slot K is converted exactly      *)
(* once, no slot after K is converted, and the error raised is the one     *)
(* produced at K, also when later slots would fail too.                    *)
(***************************************************************************)
C5_LeftToRightFirstFailure ==
    (FixedArity /\ InCall)
        => /\ Len(convLog) <= Len(SlotOrder)
           /\ convLog = SubSeq(SlotOrder, 1, Len(convLog))
           /\ SomeFails
                => LET place == FirstFailingPlace
                   IN  /\ Len(convLog) <= place
                       /\ Done => /\ Len(convLog) = place
                                  /\ ~FirstPanics
                                       => raised = <<ConvAt(SlotOrder[place]).err>>

C5_Witness ==
    /\ adapter.kind = "Method" /\ adapter.arity = MaxArity /\ adapter.sig = "i8"
    /\ pc = "raised"
    /\ FailingSlots = {3, 9}
    /\ HandleAt(3) = IntH(I8Max + 1) /\ HandleAt(9) = Nil
    /\ convLog = <<0, 1, 2, 3>>
    /\ raised[1].class = "RangeError"

(***************************************************************************)
(* C6: a function that panics produces exactly one raise for that call,    *)
(* with the captured-unwind error built from the panic payload, which is   *)
(* neither a conversion error nor an error a function returned; no handle  *)
(* is returned normally.                                                   *)
(***************************************************************************)
C6_PanicRaisesCapturedError ==
    (ret.kind = "panic")
        => /\ pc \in {"unwinding", "match", "raised"}
           /\ returned = <<>>
           /\ pc = "match" => res = ErrV(FromPanic(ret.payload))
           /\ pc = "raised"
                => /\ raised = <<FromPanic(ret.payload)>>
                   /\ raised[1].panic
                   /\ raised[1] \notin UserErrors
                   /\ \A ty \in {"i8", "u8", "RArray"} :
                         \A h \in OddHandles \cup {ProcH, ArrayH(0)} :
                            raised[1] # TryConvert(ty, h).err

C6_Witness ==
    /\ adapter.kind = "Method" /\ adapter.arity = 1
    /\ ret.kind = "panic" /\ ret.payload.ptype = "String"
    /\ pc = "raised"
    /\ raised = <<FromPanic(ret.payload)>>
    /\ raised[1].msg = "oops"

(***************************************************************************)
(* C7: in every call raise is called at most once and is the last step:    *)
(* the step that raises returns no handle, and after it no conversion, no  *)
(* invocation of the function, no result conversion and no normal return   *)
(* happens in that call.                                                   *)
(***************************************************************************)
C7_RaiseOnceAndLast ==
    [][/\ Len(raised') <= 1
       /\ (raised = <<>> /\ raised' # <<>>)
            => /\ pc' = "raised"
               /\ returned' = <<>>
               /\ UNCHANGED <<convLog, funcCalls, intoValues>>
       /\ (raised # <<>>) => pc' = "idle"]_vars

C7_Witness ==
    /\ adapter.kind = "Method" /\ adapter.arity = -2
    /\ pc = "raised"
    /\ Len(raised) = 1
    /\ returned = <<>>

(***************************************************************************)
(* C8: a call follows only RUNNING -> exit with a handle, RUNNING ->        *)
(* RAISED, and RUNNING -> CAUGHT -> RAISED: CAUGHT is entered only from    *)
(* RUNNING, on a panic, and is followed by RAISED; RAISED is terminal; a   *)
(* successful return passes through neither; a call ends in exactly one of *)
(* the two, and once the conversions failed or the function terminated the *)
(* call can always take its next step towards that end.                    *)
(***************************************************************************)
BridgePaths ==
    {<<>>, <<"RUNNING">>, <<"RUNNING", "EXIT">>, <<"RUNNING", "RAISED">>,
     <<"RUNNING", "CAUGHT">>, <<"RUNNING", "CAUGHT", "RAISED">>}

C8_BridgeStateMachine ==
    /\ bridge \in BridgePaths
    /\ pc = "returned" <=> (bridge = <<"RUNNING", "EXIT">>)
    /\ pc = "raised" <=> (bridge # <<>> /\ bridge[Len(bridge)] = "RAISED")
    /\ pc = "returned" => (Len(returned) = 1 /\ raised = <<>>)
    /\ pc = "raised" => (Len(raised) = 1 /\ returned = <<>>)
    /\ ~Done => (returned = <<>> /\ raised = <<>>)
    /\ (Len(bridge) >= 2 /\ bridge[2] = "CAUGHT")
          <=> (unwind.at # "none" /\ pc \in {"match", "raised"})
    /\ pc = "into_return" => ENABLED IntoReturn
    /\ pc = "unwinding" => ENABLED CatchPanic
    /\ pc = "match" => ENABLED MatchRes

C8_Witness ==
    /\ adapter.kind = "Method" /\ adapter.arity = 2
    /\ bridge = <<"RUNNING", "CAUGHT", "RAISED">>
    /\ pc = "raised"

(***************************************************************************)
(* C9: every error of the three sources (a failed conversion of self or    *)
(* of an argument, an Err returned by the function, a panic captured at    *)
(* the boundary) is passed to raise, and no call in which one occurred     *)
(* returns a handle.                                                       *)
(***************************************************************************)
C9_EveryErrorIsRaised ==
    Done
        => /\ (SomeFails /\ ~FirstPanics)
                => (raised = <<ConvAt(FirstFailing).err>> /\ returned = <<>>)
           /\ ret.kind = "err" => (raised = <<ret.err>> /\ returned = <<>>)
           /\ ret.kind = "panic"
                => (raised = <<FromPanic(ret.payload)>> /\ returned = <<>>)
           /\ pc = "returned"
                => (~SomeFails /\ ret.kind \notin {"none", "err", "panic"} /\ raised = <<>>)

C9_Witness ==
    /\ adapter.kind = "Method" /\ adapter.arity = -1
    /\ pc = "raised"
    /\ Len(args) = MaxArgc
    /\ FailingSlots = {}
    /\ ret.kind = "err"
    /\ raised = <<ret.err>>

(***************************************************************************)
(* C10: when the function returns Err(e) the error passed to raise is e,   *)
(* unchanged, and no into_value is performed in that call; when it returns *)
(* Ok(v) the call returns into_value(v).                                   *)
(***************************************************************************)
C10_UserErrorUnchanged ==
    (Done /\ adapter.kind # "Init")
        => /\ ret.kind = "err"
                => (raised = <<ret.err>> /\ intoValues = 0 /\ returned = <<>>)
           /\ ret.kind = "ok"
                => (returned = <<IntoValue(ret.val)>> /\ intoValues = 1 /\ raised = <<>>)

C10_Witness ==
    /\ adapter.kind = "Function" /\ adapter.arity = 2
    /\ pc = "raised"
    /\ ret.kind = "err"
    /\ ret.err = NewError("TypeError", "Integer", Nil)
    /\ raised = <<ret.err>>
    /\ intoValues = 0

(***************************************************************************)
(* C11: the function adapters (FunctionRbAry, FunctionCAry, Function0..16) *)
(* never convert the self handle: slot 0 is never handed to try_convert,   *)
(* and a call whose self handle converts to nothing, with all positional   *)
(* arguments convertible and a function that returns a value, invokes the  *)
(* function once and returns normally without a raise.                     *)
(***************************************************************************)
C11_FunctionNeverConvertsSelf ==
    (adapter.kind = "Function")
        => /\ \A i \in 1..Len(convLog) : convLog[i] # 0
           /\ (/\ Done
               /\ \A ty \in {"i8", "u8", "RArray"} : ~TryConvert(ty, rb_self).ok
               /\ ~SomeFails
               /\ ret.kind \in {"value", "ok"})
                => /\ pc = "returned"
                   /\ funcCalls = 1
                   /\ raised = <<>>

C11_Witness ==
    /\ adapter.kind = "Function" /\ adapter.arity = 2
    /\ rb_self = Nil
    /\ pc = "returned"
    /\ funcCalls = 1
    /\ convLog = <<1, 2>>
    /\ raised = <<>>

(***************************************************************************)
(* Vocabulary for the Yield return types.                                  *)
(***************************************************************************)
ReturnedIter == ret.kind \in YieldKinds /\ ret.y.kind = "Iter"
ReturnedEnumerator == ret.kind \in YieldKinds /\ ret.y.kind = "Enumerator"
\* the block invocations the items e1..en of the returned sequence call for
CallsFor(seq) == [i \in 1..Len(seq) |-> YieldCall(ret.y.variant, seq[i])]

(***************************************************************************)
(* C12: when the function returns the Iter variant of Yield, YieldValues   *)
(* or YieldSplat producing e1..en, the block is invoked exactly n times,   *)
(* once per item and in production order, and not again after en.          *)
(***************************************************************************)
C12_IterDrivenInOrder ==
    ReturnedIter
        => /\ Len(yielded) <= Len(ret.y.seq)
           /\ yielded = SubSeq(CallsFor(ret.y.seq), 1, Len(yielded))
           /\ pc \in {"into_return", "match", "returned", "raised"}
                => yielded = CallsFor(ret.y.seq)

C12_Witness ==
    /\ adapter.kind = "Method" /\ adapter.arity = 1 /\ adapter.res = "YieldValues"
    /\ ReturnedIter
    /\ Len(ret.y.seq) = MaxYield
    /\ Len(yielded) = MaxYield
    /\ yielded[1] = <<IntH(5), IntH(6)>>
    /\ pc = "returned"

(***************************************************************************)
(* C13: when the function returns the Enumerator variant of Yield,         *)
(* YieldValues or YieldSplat, the call returns the enumerator's handle and *)
(* drives nothing: the block is never invoked during the call.             *)
(***************************************************************************)
C13_EnumeratorNotDriven ==
    ReturnedEnumerator
        => /\ yielded = <<>>
           /\ pc # "yielding"
           /\ Done => (returned = <<EnumH(ret.y)>> /\ raised = <<>>)

C13_Witness ==
    /\ adapter.kind = "Function" /\ adapter.arity = 0 /\ adapter.res = "YieldSplat"
    /\ ReturnedEnumerator
    /\ ret.kind = "ok_yield"
    /\ Len(ret.y.seq) > 0
    /\ yielded = <<>>
    /\ pc = "returned"
    /\ returned[1].tag = "enumerator"

(***************************************************************************)
(* C14: the sequence of an Iter is driven inside the call: every block     *)
(* invocation happens after the function returned and before the call      *)
(* returns, and the handle returned after driving is the default (nil)     *)
(* handle, not one derived from the items.                                 *)
(***************************************************************************)
C14_DrivenBeforeReturn ==
    [][/\ yielded' # yielded /\ pc' # "idle"
            => /\ funcCalls = 1 /\ ReturnedIter
               /\ pc = "yielding"
               /\ returned' = <<>> /\ raised' = <<>>
       /\ (pc' = "returned" /\ ret'.kind \in YieldKinds /\ ret'.y.kind = "Iter")
            => /\ yielded' = yielded
               /\ Len(yielded') = Len(ret'.y.seq)
               /\ returned' = <<DefaultValue>>
               /\ returned' = <<Nil>>]_vars

C14_Witness ==
    /\ adapter.kind = "Function" /\ adapter.arity = -1 /\ adapter.res = "YieldSplat"
    /\ ReturnedIter
    /\ Len(yielded) = MaxYield
    /\ yielded[MaxYield] = <<IntH(3), IntH(4)>>
    /\ pc = "returned"
    /\ returned = <<Nil>>

(***************************************************************************)
(* Vocabulary for arity -2: the container passed and what Args expects.    *)
(***************************************************************************)
RbAry == adapter.kind \in {"Method", "Function"} /\ adapter.arity = -2
SelfConverts ==
    adapter.kind = "Function" \/ TryConvert(ArgTy(adapter.sig, 0), rb_self).ok
\* the container has the number of elements Args takes
ContainerFits == ArgsTy(adapter.sig) = "RArray" \/ args[1].val = 2
\* the last argument the function received
LastFuncArg == funcArgs[Len(funcArgs)]

(***************************************************************************)
(* C15 as stated: for arity -2 the adapter converts no positional          *)
(* argument, so no conversion failure of an individual positional argument *)
(* can prevent the function from being invoked.                            *)
(***************************************************************************)
C15_NoElementFailurePreventsCall ==
    (RbAry /\ Done /\ SelfConverts /\ ContainerFits)
        => funcCalls = 1

(***************************************************************************)
(* C15 amended: for arity -2 the adapter converts the container once, as a *)
(* whole, to the function's Args type. With Args = RArray the function     *)
(* receives the container as passed, whatever its elements; with a tuple   *)
(* as Args that conversion converts the elements, and an element that      *)
(* fails ends the call in raise without the function being invoked.        *)
(***************************************************************************)
C15_ContainerConvertedAsAWhole ==
    (RbAry /\ Done)
        => LET c == TryConvert(ArgsTy(adapter.sig), args[1])
               order == IF adapter.kind = "Method" THEN <<0, 1>> ELSE <<1>>
               elems == args[1].elems
           IN  /\ convLog = SubSeq(order, 1, Len(convLog))
               /\ SelfConverts
                    => /\ c.ok <=> funcCalls = 1
                       /\ c.ok => LastFuncArg = c.val
                       /\ ~c.ok => (raised = <<c.err>> /\ pc = "raised")
               /\ (SelfConverts /\ ArgsTy(adapter.sig) = "RArray")
                    => (funcCalls = 1 /\ LastFuncArg = RArrayT(elems))
               /\ (/\ SelfConverts
                   /\ ArgsTy(adapter.sig) = "(i8, u8)"
                   /\ Len(elems) = 2
                   /\ ~TryConvertI8(elems[1]).ok \/ ~TryConvertU8(elems[2]).ok)
                    => (funcCalls = 0 /\ pc = "raised" /\ returned = <<>>)

C15_Witness ==
    /\ adapter.kind = "Method" /\ adapter.arity = -2 /\ adapter.sig = "mixed"
    /\ args = <<ArrayOf(<<Nil, IntH(2)>>)>>
    /\ TryConvert("i8", rb_self).ok
    /\ pc = "raised"
    /\ funcCalls = 0
    /\ raised = <<NewError("TypeError", "Integer", Nil)>>

(***************************************************************************)
(* C16: for arity -1 (MethodCAry, FunctionCAry) and Block, with argc >= 0,  *)
(* the function receives a view of exactly argc handles whose i-th element *)
(* is argv[i], in order and unconverted; the only conversion of the        *)
(* adapter is that of self, for MethodCAry only, and it is done before the *)
(* function runs. So every call that the conversion of self does not end   *)
(* invokes the function, and invokes it with that view.                    *)
(***************************************************************************)
\* the conversion of self, which MethodCAry alone performs, returned a value
SelfGoesThrough ==
    adapter.kind = "Method" => TryConvert(ArgTy(adapter.sig, 0), rb_self).ok

C16_SliceIsArgv ==
    /\ (adapter.arity = -1 /\ funcCalls = 1)
        => /\ Len(funcSlice) = Len(args)
           /\ \A i \in 1..Len(args) : funcSlice[i] = args[i]
           /\ convLog = IF adapter.kind = "Method" THEN <<0>> ELSE <<>>
           /\ funcArgs = CASE adapter.kind = "Method" ->
                                <<TryConvert(ArgTy(adapter.sig, 0), rb_self).val>>
                           [] adapter.kind = "Block" -> <<ProcFromValue(rb_self)>>
                           [] OTHER -> <<>>
    /\ (adapter.arity = -1 /\ SelfGoesThrough
            /\ pc \in {"returned", "raised", "escaped", "aborted"})
        => funcCalls = 1

\* a call without arguments whose argv is null: the process is gone before
\* self is converted and before the function runs
C16_Witness ==
    /\ adapter.kind = "Method" /\ adapter.arity = -1
    /\ argv = NullPtr /\ args = <<>>
    /\ SelfGoesThrough
    /\ pc = "aborted"
    /\ convLog = <<>>
    /\ funcCalls = 0
    /\ raised = <<>> /\ returned = <<>>

(***************************************************************************)
(* The arity table: what arity() reports for each supported signature.    *)
(***************************************************************************)
ArityTable ==
    /\ Arity(RbArySig) = MinArity
    /\ Arity(CArySig) = MinArity + 1
    /\ \A n \in 0..MaxArity : Arity(ValueSig(n + 1)) = n
    /\ {Arity(s) : s \in Signatures} = MinArity..MaxArity
    /\ \A s, t \in Signatures : Arity(s) = Arity(t) => s = t

(***************************************************************************)
(* C17: Method::arity() is -2 for fn(Value, RArray), -1 for fn(c_int,      *)
(* *const Value, Value) and N for the signature with N + 1 Value           *)
(* parameters, N in 0..16; the arities reported are exactly -2..16, no two *)
(* signatures report the same one, and the pointer generated for the       *)
(* registered adapter reports the adapter's arity.                         *)
(***************************************************************************)
C17_ArityOfSignature ==
    /\ ArityTable
    /\ adapter.kind \in {"Method", "Function"}
          => /\ AnonSignature(adapter) \in Signatures
             /\ Arity(AnonSignature(adapter)) = adapter.arity

C17_Witness ==
    /\ adapter.kind = "Method" /\ adapter.arity = MaxArity
    /\ Len(AnonSignature(adapter)) = MaxArity + 1
    /\ Arity(AnonSignature(adapter)) = MaxArity
    /\ Len(args) = MaxArity
    /\ pc = "returned"

(***************************************************************************)
(* C20: nothing is retried: within one invocation no handle is converted   *)
(* twice and the function is invoked at most once, and once a conversion   *)
(* failed, the function returned (a value or an error) or its panic was    *)
(* caught, no conversion and no invocation follows in that invocation.     *)
(***************************************************************************)
C20_NothingRetried ==
    [][/\ funcCalls' <= 1
       /\ \A i, j \in 1..Len(convLog') : i # j => convLog'[i] # convLog'[j]
       /\ (pc \notin {"idle", "convert"} /\ pc' # "idle")
            => UNCHANGED <<convLog, funcCalls>>]_vars

C20_Witness ==
    /\ adapter.kind = "Method" /\ adapter.arity = 3
    /\ pc = "raised"
    /\ HandleAt(2) = Nil
    /\ convLog = <<0, 1, 2>>
    /\ funcCalls = 0
    /\ Len(raised) = 1

(***************************************************************************)
(* C18 as stated: an adapter is created once, at registration time, and    *)
(* is what every later invocation consumes: invoking the trampoline k      *)
(* times does not construct k adapters.                                    *)
(***************************************************************************)
C18_AdapterCreatedOnce ==
    calls > 1 => built < calls

(***************************************************************************)
(* C18 amended: no adapter exists at registration time; every invocation   *)
(* of the trampoline constructs a new adapter and consumes it, so after k  *)
(* invocations k adapters have been constructed.                           *)
(***************************************************************************)
C18_AdapterBuiltPerInvocation ==
    /\ built = calls
    /\ (pc = "idle" /\ lastEnd = "none") => built = 0

C18_Witness ==
    /\ adapter.kind = "Method" /\ adapter.arity = 0
    /\ calls = MaxCalls
    /\ built = MaxCalls
    /\ lastEnd = "returned"
    /\ pc = "returned"

(***************************************************************************)
(* The outcome of an invocation as a function of its handles and of what   *)
(* the function does, computed without the state of the trampoline.        *)
(***************************************************************************)
CallConv == ConvertFrom(ConvList(adapter, rb_self, args), 1, <<>>)
ExpectedEnd ==
    LET c == CallConv
    IN  IF c.panic # NoPayload
        THEN UnwrapRes(CatchUnwind(Panicked(c.panic)).res)
        ELSE IF ~c.cont THEN UnwrapRes(CatchUnwind(Normal(c.res)).res)
        ELSE IF ret.kind = "panic"
        THEN UnwrapRes(CatchUnwind(Panicked(ret.payload)).res)
        ELSE IF Ends(ret) = "panic"
        THEN UnwrapRes(CatchUnwind(Panicked(IterPayload)).res)
        ELSE UnwrapRes(CatchUnwind(Normal(IntoReturnValue(adapter, ret).res)).res)

(***************************************************************************)
(* C19: adapters are stateless per call: whatever invocations came before  *)
(* (returned, raised or panicked), an invocation starts from nothing left  *)
(* by them, the function receives the values converted from this call's    *)
(* handles, and the handle returned or the error raised is the one those   *)
(* handles and the function's outcome determine.                           *)
(***************************************************************************)
C19_StatelessPerCall ==
    /\ pc = "idle"
          => /\ converted = <<>> /\ convLog = <<>> /\ funcCalls = 0
             /\ funcArgs = <<>> /\ funcSlice = <<>> /\ ret = NoRet
             /\ res = NoRes /\ raised = <<>> /\ returned = <<>>
             /\ yielded = <<>> /\ intoValues = 0
    /\ Done
          => LET c == CallConv
                 e == ExpectedEnd
             IN  /\ funcCalls = IF c.cont THEN 1 ELSE 0
                 /\ c.cont => /\ funcArgs = FuncArgList(adapter, c.converted, rb_self)
                              /\ ret \in FuncOutcomes(adapter, funcArgs, funcSlice)
                 /\ returned = IF e.ret THEN <<e.val>> ELSE <<>>
                 /\ raised = IF e.raise THEN <<e.err>> ELSE <<>>

C19_Witness ==
    /\ adapter.kind = "Method" /\ adapter.arity = 1
    /\ calls = MaxCalls
    /\ lastEnd = "caught"
    /\ pc = "returned"
    /\ funcArgs = <<Typed("i8", 0), Typed("i8", 1)>>
    /\ returned = <<IntoValue(ret.val)>>

(***************************************************************************)
(* The range of an integer type, stated on the handles themselves          *)
(***************************************************************************)
IsInteger(h) == h.tag \in {"int", "bignum"}

\* a native handle: every signed type of 32 bits and more holds it, every
\* unsigned one of 32 bits and more holds it when it is not negative
NativeInRange(ty, n) ==
    CASE ty = "i8" -> n >= 0 - 128 /\ n <= 127
      [] ty = "u8" -> n >= 0 /\ n <= 255
      [] ty = "i16" -> n >= 0 - 32768 /\ n <= 32767
      [] ty = "u16" -> n >= 0 /\ n <= 65535
      [] ty \in {"i32", "i64", "isize"} -> TRUE
      [] ty \in {"u32", "u64", "usize"} -> n >= 0

\* a Bignum handle: by the number of its limbs and its last limb
BignumInRange(ty, h) ==
    CASE ty \in {"i8", "u8", "i16", "u16"} -> FALSE
      [] ty = "i32" -> h.neg /\ h.mag = <<0, 32768>>
      [] ty = "u32" -> ~h.neg /\ Len(h.mag) <= 2
      [] ty \in {"i64", "isize"} ->
            \/ Len(h.mag) <= 3
            \/ Len(h.mag) = 4 /\ h.mag[4] < 32768
            \/ h.neg /\ h.mag = <<0, 0, 0, 32768>>
      [] ty \in {"u64", "usize"} -> ~h.neg /\ Len(h.mag) <= 4

InRange(ty, h) ==
    IF h.tag = "int" THEN NativeInRange(ty, h.val)
    ELSE h.tag = "bignum" /\ BignumInRange(ty, h)

\* a conversion to an integer type was applied
IntConverted ==
    /\ conversion.stage \in {"converted", "back"}
    /\ conversion.ty.ctor \in IntTypes

(***************************************************************************)
(* C21: round trip on integers: for every integer handle whose value lies  *)
(* in the range of the target integer type (i8 .. usize), 0, -1 and the    *)
(* type's minimum and maximum included, try_convert to that type succeeds  *)
(* with a value of that type and into_value of the value is a handle equal *)
(* to the original: the same Integer.                                      *)
(***************************************************************************)
C21_IntegerRoundTrip ==
    (IntConverted /\ InRange(conversion.ty.ctor, conversion.h))
        => /\ conversion.out.res.ok
           /\ conversion.out.res.val.ty = conversion.ty.ctor
           /\ (conversion.stage = "back") => conversion.back = conversion.h

\* the minimum of i64, a Bignum: held as the bits 0x8000_0000_0000_0000 and
\* given back as the same Bignum
C21_Witness ==
    /\ conversion.stage = "back"
    /\ conversion.ty = Scalar("i64")
    /\ conversion.h = BigH(TRUE, <<0, 0, 0, 32768>>)
    /\ conversion.out.res.val = IntT("i64", <<0, 0, 0, 32768>>)
    /\ conversion.back = conversion.h

(***************************************************************************)
(* C22: integer conversion never wraps silently: for every integer type,   *)
(* try_convert of an integer handle whose value is outside the type's      *)
(* range (one past its maximum, one below its minimum, -1 for an unsigned  *)
(* type) returns a range error and no value; a handle that is not an       *)
(* integer fails with the error of Integer::try_convert, before any range  *)
(* check.                                                                  *)
(***************************************************************************)
C22_NoSilentWrap ==
    IntConverted =>
        LET ty == conversion.ty.ctor
            h == conversion.h
            r == conversion.out.res
        IN  /\ (IsInteger(h) /\ ~InRange(ty, h))
                    => /\ ~r.ok
                       /\ r.val = NoValue
                       /\ r.err = NewError("RangeError", ty, h)
            /\ ~IsInteger(h) => r = ErrT(NewError("TypeError", "Integer", h))
            /\ r.ok => InRange(ty, h)

C22_Witness ==
    /\ conversion.stage = "converted"
    /\ conversion.ty = Scalar("u64")
    /\ conversion.h = BigH(FALSE, <<0, 0, 0, 0, 1>>)
    /\ conversion.out.res.err.class = "RangeError"

(***************************************************************************)
(* C23: the marker TryConvertOwned is held only by types that do not       *)
(* contain a Value: for every type T built by the TryConvertOwned impls    *)
(* (scalars, String, PathBuf, Option<T>, Vec<T>, [T; N], tuples of 1 to 12 *)
(* elements, HashMap<K, V>),                                               *)
(* T: TryConvertOwned implies that T contains no Value, so that no Vec     *)
(* accepted by TryConvert holds a Value on the heap.                       *)
(***************************************************************************)
C23_OwnedHoldsNoValue ==
    (conversion.stage = "converted" /\ conversion.out.res.ok) =>
        /\ Owned(conversion.ty) => ~ContainsValue(conversion.ty)
        /\ (conversion.ty.ctor = "Vec" /\ Implements(conversion.ty))
                => /\ ~ContainsValue(conversion.ty.args[1])
                   /\ \A i \in 1..Len(conversion.out.log) :
                        ~ContainsValue(conversion.out.log[i].ty)

(***************************************************************************)
(* C24: method! and function! accept exactly the arity literals -2, -1,    *)
(* 0, .., 16: each expands to a trampoline that builds the adapter of that *)
(* arity (MethodN / FunctionN, RbAry for -2, CAry for -1) and passes on    *)
(* the handles in the order received; any other arity is rejected at       *)
(* compile time with "arity must be an integer literal between -2..=16"    *)
(* and leaves no trampoline. The literals are those tokens: an integer     *)
(* literal written otherwise (0x1, 01, 1u8) is rejected with that error    *)
(* too.                                                                    *)
(***************************************************************************)
\* the host's handle for position i is GoodHandle(i) or an odd handle
FromPosition(h, i) == h = GoodHandle(i) \/ h \in OddHandlesOf(adapter.sig)

ForwardedInOrder ==
    /\ FromPosition(rb_self, 0)
    /\ adapter.arity >= 0 => Len(args) = adapter.arity
    /\ adapter.arity # -2 => \A i \in 1..Len(args) : FromPosition(args[i], i)
    /\ adapter.arity = -2
          => /\ Len(args) = 1
             /\ args[1].tag = "array"
             /\ \A i \in 1..Len(args[1].elems) : FromPosition(args[1].elems[i], i)

C24_MacroArities ==
    (macro.name # "none") =>
        LET accepted == \E n \in -2..16 : macro.arg.tokens = Spelled(n)
        IN  /\ accepted <=> macro.error = ""
            /\ accepted
                  => /\ adapter.kind
                          = (IF macro.name = "method" THEN "Method" ELSE "Function")
                     /\ macro.arg.tokens = Spelled(adapter.arity)
                     /\ adapter.arity = macro.arg.val
                     /\ built = calls
                     /\ InCall => ForwardedInOrder
            /\ ~accepted
                  => /\ macro.error
                          = "arity must be an integer literal between -2..=16"
                     /\ adapter = NoAdapter
                     /\ ~ENABLED Next

C24_Witness ==
    /\ macro = [name |-> "function", arg |-> ArityArg(<<"16">>, 16), error |-> ""]
    /\ adapter.kind = "Function" /\ adapter.arity = 16
    /\ pc = "returned"
    /\ Len(funcArgs) = 16

(***************************************************************************)
(* C25: the capture region covers the whole of call_convert_value: a panic *)
(* while converting self or an argument, or while converting the result    *)
(* (the next of an eagerly driven iterator panicking after some items were *)
(* yielded), is caught and ends in exactly one raise with the error made   *)
(* from the panic; when it happens while converting an argument the        *)
(* function is never invoked.                                              *)
(***************************************************************************)
C25_RegionCoversConversions ==
    /\ pc # "escaped" /\ ~unwound
    /\ unwind.at # "none"
          => /\ pc \in {"unwinding", "match", "raised"}
             /\ returned = <<>>
             /\ pc = "match" => res = ErrV(FromPanic(unwind.payload))
             /\ pc = "raised" => raised = <<FromPanic(unwind.payload)>>
    /\ (InCall /\ FirstPanics)
          => /\ funcCalls = 0
             /\ ret = NoRet
             /\ Done => /\ unwind = Unwind("convert", CustomPayload)
                         /\ pc = "raised"
    /\ (Done /\ Ends(ret) = "panic")
          => /\ unwind = Unwind("result", IterPayload)
             /\ pc = "raised"
             /\ yielded = CallsFor(ret.y.seq)
             /\ intoValues = 0

C25_Witness ==
    /\ adapter.kind = "Method" /\ adapter.arity = 1 /\ adapter.sig = "custom"
    /\ rb_self = GoodHandle(0) /\ args = <<ProcH>>
    /\ convLog = <<0, 1>>
    /\ funcCalls = 0
    /\ pc = "raised"
    /\ bridge = <<"RUNNING", "CAUGHT", "RAISED">>
    /\ raised = <<FromPanic(CustomPayload)>>

(***************************************************************************)
(* C26: when the function returns Err(e) of type Result<Yield<I>, Error>,  *)
(* Result<YieldValues<I>, Error> or Result<YieldSplat<I>, Error> the       *)
(* sequence is never driven (the block is not invoked), no enumerator      *)
(* handle is returned and e is raised unchanged; when it returns Ok(y) the *)
(* outcome is the one of returning y directly.                             *)
(***************************************************************************)
\* the outcome of returning y directly: the block invocations, and the
\* handle returned or the error raised
Directly(y) ==
    LET r == ReturnValueYield(y)
    IN  [yielded |-> [i \in 1..Len(r.drive) |-> YieldCall(y.variant, r.drive[i])],
         returned |-> IF y.kind = "Iter" /\ y.ends = "panic"
                      THEN <<>> ELSE <<r.res.val>>,
         raised |-> IF y.kind = "Iter" /\ y.ends = "panic"
                    THEN <<FromPanic(IterPayload)>> ELSE <<>>]

C26_ResultOfYield ==
    /\ (adapter.res \in YieldTypes /\ ret.kind = "err")
          => /\ yielded = <<>>
             /\ pc # "yielding"
             /\ returned = <<>>
             /\ Done => raised = <<ret.err>>
    /\ (ret.kind \in YieldKinds /\ Done)
          => /\ yielded = Directly(ret.y).yielded
             /\ returned = Directly(ret.y).returned
             /\ raised = Directly(ret.y).raised

C26_Witness ==
    /\ adapter.kind = "Method" /\ adapter.arity = 1 /\ adapter.res = "YieldSplat"
    /\ ret.kind = "err"
    /\ funcCalls = 1
    /\ yielded = <<>>
    /\ pc = "raised"
    /\ raised = <<NewError("RuntimeError", "user", NoHandle)>>

(***************************************************************************)
(* Vocabulary for the conversions of tuples and of Option                  *)
(***************************************************************************)
Converted == conversion.stage # "input" /\ conversion.stage # "none"
\* the conversion of element i of the Array h to the i-th type of ts
ElementOf(ts, h, i) == TryConvertOf(ts[i], h.elems[i])
\* the elements of h that do not convert
FailingElements(ts, h) == {i \in 1..Len(ts) : ~ElementOf(ts, h, i).res.ok}
\* the calls of try_convert that converting the elements 1..k makes
RECURSIVE CallsUpTo(_, _, _)
CallsUpTo(ts, h, k) ==
    IF k = 0 THEN <<>>
    ELSE CallsUpTo(ts, h, k - 1)
             \o <<Call(ts[k], h.elems[k])>> \o ElementOf(ts, h, k).log

(***************************************************************************)
(* C27: the conversion to a tuple of n elements, n in 1..12, checks in     *)
(* this order: the handle is an array (otherwise the error of that         *)
(* conversion, and no length check); the array has n elements (otherwise a *)
(* type error "expected Array of length n", and no element is converted);  *)
(* then the elements are converted left to right from the first, stopping  *)
(* at the first that fails, whose error is returned. It is Ok exactly when *)
(* the handle is an array of n elements that all convert.                  *)
(***************************************************************************)
C27_TupleChecksInOrder ==
    (Converted /\ conversion.ty.ctor = "Tuple")
        => LET ts == conversion.ty.args
               h == conversion.h
               out == conversion.out
               n == Len(ts)
           IN  /\ n \in 1..TupleMax
               /\ h.tag # "array"
                     => /\ out.res = RArrayTryConvert(h)
                        /\ ~out.res.ok
                        /\ out.res.err.msg # LengthError(n)
                        /\ out.log = <<>>
               /\ (h.tag = "array" /\ Len(h.elems) # n)
                     => /\ out.res = ErrT(NewError("TypeError", LengthError(n),
                                                   NoHandle))
                        /\ out.log = <<>>
               /\ (h.tag = "array" /\ Len(h.elems) = n)
                     => LET F == FailingElements(ts, h)
                        IN  IF F = {}
                            THEN /\ out.res = OkT(TupleT(
                                      [i \in 1..n |-> ElementOf(ts, h, i).res.val]))
                                 /\ out.log = CallsUpTo(ts, h, n)
                            ELSE LET k == CHOOSE i \in F : \A j \in F : i <= j
                                 IN  /\ out.res = ElementOf(ts, h, k).res
                                     /\ out.log = CallsUpTo(ts, h, k)
               /\ out.res.ok <=> /\ h.tag = "array"
                                  /\ Len(h.elems) = n
                                  /\ \A i \in 1..n : ElementOf(ts, h, i).res.ok

C27_Witness ==
    /\ Converted
    /\ conversion.ty = TupleTy(TupleMax)
    /\ conversion.h.tag = "array" /\ Len(conversion.h.elems) = TupleMax
    /\ FailingElements(conversion.ty.args, conversion.h) = {3, 7}
    /\ Len(conversion.out.log) = 3
    /\ conversion.out.res = ElementOf(conversion.ty.args, conversion.h, 3).res

(***************************************************************************)
(* C28: Option<T>::try_convert returns Ok(None) for the nil handle without *)
(* invoking the conversion of T; for every other handle it invokes         *)
(* T::try_convert exactly once and returns Ok(Some(v)) when that gives v,  *)
(* or the error of T unchanged when it fails; it never returns Ok(None)    *)
(* for a handle that is not nil.                                           *)
(***************************************************************************)
\* how many times the log has the call c
Times(log, c) == Cardinality({i \in 1..Len(log) : log[i] = c})

C28_OptionOfNilIsNone ==
    (Converted /\ conversion.ty.ctor = "Option")
        => LET t == conversion.ty.args[1]
               h == conversion.h
               out == conversion.out
               inner == TryConvertOf(t, h)
           IN  /\ h = Nil => (out.res = OkT(NoneT) /\ out.log = <<>>)
               /\ h # Nil
                     => /\ Times(out.log, Call(t, h)) = 1
                        /\ out.log[1] = Call(t, h)
                        /\ inner.res.ok => out.res = OkT(SomeT(inner.res.val))
                        /\ ~inner.res.ok
                              => (~out.res.ok /\ out.res.err = inner.res.err)
                        /\ out.res # OkT(NoneT)

C28_Witness ==
    /\ Converted
    /\ conversion.ty = OptionOf(OptionOf(Scalar("i8")))
    /\ conversion.h = IntH(I8Max + 1)
    /\ Len(conversion.out.log) = 2
    /\ conversion.out.res = ErrT(NewError("RangeError", "i8", IntH(I8Max + 1)))

(***************************************************************************)
(* C29: the Init adapter follows the bridge of the method adapters though  *)
(* it takes no handles and returns none: call_handle_error invokes the     *)
(* init function exactly once; it returns without a raise when the         *)
(* function returns () or Ok(()); it calls raise exactly once, with e when *)
(* the function returns Err(e) and with the error made from the panic when *)
(* the function panics.                                                    *)
(***************************************************************************)
C29_InitFollowsTheBridge ==
    (adapter.kind = "Init" /\ InCall)
        => /\ rb_self = NoHandle /\ args = <<>>
           /\ convLog = <<>> /\ intoValues = 0
           /\ funcCalls = (IF pc = "convert" THEN 0 ELSE 1)
           /\ funcArgs = <<>>
           /\ Done
                => /\ ret.kind \in {"value", "ok"}
                        => /\ pc = "returned"
                           /\ returned = <<UnitH>>
                           /\ raised = <<>>
                           /\ bridge = <<"RUNNING", "EXIT">>
                   /\ ret.kind = "err"
                        => /\ pc = "raised"
                           /\ raised = <<ret.err>>
                           /\ returned = <<>>
                           /\ bridge = <<"RUNNING", "RAISED">>
                   /\ ret.kind = "panic"
                        => /\ pc = "raised"
                           /\ raised = <<FromPanic(ret.payload)>>
                           /\ returned = <<>>
                           /\ bridge = <<"RUNNING", "CAUGHT", "RAISED">>

C29_Witness ==
    /\ adapter.kind = "Init"
    /\ funcCalls = 1
    /\ ret.kind = "err"
    /\ pc = "raised"
    /\ raised = <<NewError("TypeError", "Integer", Nil)>>
    /\ lastEnd = "caught"

====
